---- MODULE Spec2Model ----
(***************************************************************************)
(* Model of the room-membership and negotiation orchestration of the       *)
(* WebRTC client: src/src/App.vue (orchestrator), PCWrap.ts (peer          *)
(* connection wrapper) and ProtooClientWrap.ts (signaling wrapper).        *)
(*                                                                         *)
(* JavaScript strings are sequences of code points; a code point is        *)
(* written as a one-element name ("7", " ", "e", "U+0301", "U+00E9").      *)
(* A raw id is what a payload carries: a number or a string.               *)
(***************************************************************************)
EXTENDS Integers, Sequences, FiniteSets, TLC

\* ---------------------------------------------------------------- bounds
\* Number of participant payloads the server may deliver in one behaviour
\* (summed over join responses, newUser and newPusher notifications).
MaxUpserts == 2
\* Participant payloads delivered in one behaviour of the negotiation
\* specification.
MaxDeliveries == 2
\* Number of times the Join button is pressed.
MaxJoinCalls == 2
\* Number of times the Open Devices button is pressed.
MaxOpenCalls == 2
\* Direct calls of pullRemoteUser.
MaxSubscribes == 2
\* Calls of onNotification in the stepwise reducer.
MaxNotifications == 3
\* Participant payloads delivered in the naming specification.
MaxNamings == 3
\* Calls of sendMessage.
MaxSends == 2
\* Ticks of the heartbeat timer that find the status connected or joined.
MaxHeartbeats == 2
\* Calls of createOfferAndEmit on the receive-only session used on its own.
MaxOfferCalls == 2
\* Calls on the ProtooClientWrap used on its own.
MaxWrapCalls == 4
\* Calls of createOfferAndEmit on the session followed through gathering.
MaxIceCalls == 2
\* Calls of openDevices on the object used on its own.
MaxDeviceCalls == 4

\* ------------------------------------------------------- JavaScript values
\* `undefined` for a userName that a payload does not carry.
Undefined == "<undefined>"

Num(n) == [kind |-> "num", v |-> n, s |-> <<>>]
Str(s) == [kind |-> "str", v |-> 0, s |-> s]

DigitCp == <<"0", "1", "2", "3", "4", "5", "6", "7", "8", "9">>

\* String(n) for a non-negative integer: its decimal digits.
RECURSIVE NumToString(_)
NumToString(n) ==
    IF n < 10 THEN <<DigitCp[n + 1]>>
    ELSE NumToString(n \div 10) \o <<DigitCp[(n % 10) + 1]>>

\* String(id)
JsString(id) == IF id.kind = "num" THEN NumToString(id.v) ELSE id.s

\* The code points String.prototype.trim() removes (a sample of WhiteSpace).
WhiteSpace == {" ", "U+0009"}

RECURSIVE TrimStart(_)
TrimStart(s) ==
    IF s # <<>> /\ s[1] \in WhiteSpace THEN TrimStart(Tail(s)) ELSE s

RECURSIVE TrimEnd(_)
TrimEnd(s) ==
    IF s # <<>> /\ s[Len(s)] \in WhiteSpace
    THEN TrimEnd(SubSeq(s, 1, Len(s) - 1)) ELSE s

\* String.prototype.trim()
Trim(s) == TrimEnd(TrimStart(s))

\* Canonical composition pairs (base, combining mark) -> precomposed.
Composable(a, b) == a = "e" /\ b = "U+0301"
Composed(a, b) == "U+00E9"

\* String.prototype.normalize('NFC') on the modelled alphabet.
RECURSIVE NFC(_)
NFC(s) ==
    IF Len(s) < 2 THEN s
    ELSE IF Composable(s[1], s[2])
         THEN NFC(<<Composed(s[1], s[2])>> \o SubSeq(s, 3, Len(s)))
         ELSE <<s[1]>> \o NFC(Tail(s))

\* normalizeId: String(id).trim().normalize('NFC')
normalizeId(id) == NFC(Trim(JsString(id)))

\* ------------------------------------------------------------ PCWrap.ts
\* new PCWrap({direction: 'recvonly'}): no RTCPeerConnection yet, empty recvMap.
\* transceivers models pc.getTransceivers(); each transceiver carries the
\* publication it was reserved for, the state of its inbound track
\* ("new": never negotiated, "live": negotiated, track event pending,
\* "fired": track event dispatched) and the track's enabled flag.
NewPCWrap ==
    [present |-> TRUE, pcOpen |-> FALSE, transceivers |-> <<>>, recvMap |-> <<>>]

\* user.receivePcWrap === undefined
NoPCWrap ==
    [present |-> FALSE, pcOpen |-> FALSE, transceivers |-> <<>>, recvMap |-> <<>>]

RecvMapKeys(w) == {w.recvMap[i].pusher_id : i \in 1..Len(w.recvMap)}

\* A variant of addTransceivers that skips a spec when the session already
\* has a transceiver of the spec's type.
RECURSIVE addTransceiversPerType(_, _)
addTransceiversPerType(w, specs) ==
    IF specs = <<>> THEN [w EXCEPT !.pcOpen = TRUE]
    ELSE LET spec == Head(specs)
             taken == \E t \in 1..Len(w.transceivers) :
                          w.transceivers[t].kind = spec.type
             w2 == IF taken
                   THEN [w EXCEPT !.pcOpen = TRUE]
                   ELSE [w EXCEPT
                           !.pcOpen = TRUE,
                           !.transceivers = Append(@, [kind |-> spec.type,
                                                        forPusher |-> spec.pusher_id,
                                                        st |-> "new",
                                                        enabled |-> TRUE]),
                           !.recvMap = Append(@, [pusher_id |-> spec.pusher_id, mid |-> ""])]
         IN addTransceiversPerType(w2, Tail(specs))

\* PCWrap.addTransceivers(specs): one recvonly transceiver per spec whose
\* pusher_id is not a key of recvMap yet; the mid recorded is '' (a new
\* transceiver's mid is null until a description is set).
RECURSIVE addTransceivers(_, _)
addTransceivers(w, specs) ==
    IF specs = <<>> THEN [w EXCEPT !.pcOpen = TRUE]
    ELSE LET spec == Head(specs)
             w2 == IF spec.pusher_id \in RecvMapKeys(w)
                   THEN [w EXCEPT !.pcOpen = TRUE]
                   ELSE [w EXCEPT
                           !.pcOpen = TRUE,
                           !.transceivers = Append(@, [kind |-> spec.type,
                                                        forPusher |-> spec.pusher_id,
                                                        st |-> "new",
                                                        enabled |-> TRUE]),
                           !.recvMap = Append(@, [pusher_id |-> spec.pusher_id, mid |-> ""])]
         IN addTransceivers(w2, Tail(specs))

\* ------------------------------------------------- App.vue: membership table
\* pushers.map(p => ({type: p.rtpParam.av_type, pusher_id: p.pusherId}))
SpecsOf(pushers) ==
    [i \in 1..Len(pushers) |->
        [type |-> pushers[i].av_type, pusher_id |-> pushers[i].pusherId]]

PusherIdsOf(pushers) == {pushers[i].pusherId : i \in 1..Len(pushers)}

\* user.pushers of a payload: an array, or not an array (absent).
PayloadPushers(user) == IF user.pushers.isArray THEN user.pushers.items ELSE <<>>

\* user.videoRef: "undefined", or the participant's <video> element with
\* srcObject null ("unbound") or srcObject = playStream ("bound").
NoVideoRef == "undefined"

\* playStream: absent, or a MediaStream with the tracks added to it (by
\* transceiver position). gen tells the MediaStream objects a participant
\* was given apart: each new MediaStream() is another object.
NoStream == [present |-> FALSE, tracks |-> {}, gen |-> 0]

\* new MediaStream(), assigned where old was held.
StreamAfter(old) == [present |-> TRUE, tracks |-> {}, gen |-> old.gen + 1]

NewStream == StreamAfter(NoStream)

\* A variant of createRemoteUser that gives every new participant a receive
\* session and a buffer, publications or not.
createRemoteUserEager(user) ==
    [userId |-> normalizeId(user.userId),
     userName |-> user.userName,
     pushers |-> PayloadPushers(user),
     receivePcWrap |-> addTransceivers(NewPCWrap, SpecsOf(PayloadPushers(user))),
     playStream |-> NewStream,
     videoRef |-> NoVideoRef,
     videoMuted |-> "false",
     audioMuted |-> "false",
     state |-> Undefined]

\* createRemoteUser(user)
createRemoteUser(user) ==
    LET pushers == PayloadPushers(user)
        base == [userId |-> normalizeId(user.userId),
                 userName |-> user.userName,
                 pushers |-> pushers,
                 receivePcWrap |-> NoPCWrap,
                 playStream |-> NoStream,
                 videoRef |-> NoVideoRef,
                 videoMuted |-> Undefined,
                 audioMuted |-> Undefined,
                 state |-> Undefined]
    IN IF Len(pushers) > 0
       THEN [base EXCEPT
               !.receivePcWrap = addTransceivers(NewPCWrap, SpecsOf(pushers)),
               !.playStream = NewStream,
               !.videoMuted = "false",
               !.audioMuted = "false"]
       ELSE base

\* A variant of FindIdx that compares the stored id with String(user.userId),
\* without trimming or normalizing the payload's id.
FindIdxStrict(table, rawId) ==
    LET hits == {i \in 1..Len(table) : table[i].userId = JsString(rawId)}
    IN IF hits = {} THEN 0 ELSE CHOOSE i \in hits : \A j \in hits : i <= j

\* The index of the first table entry whose id equals the payload's under
\* normalizeId, 0 when there is none (the for-loop of upsertRemoteUser).
FindIdx(table, rawId) ==
    LET hits == {i \in 1..Len(table) :
                    normalizeId(Str(table[i].userId)) = normalizeId(rawId)}
    IN IF hits = {} THEN 0 ELSE CHOOSE i \in hits : \A j \in hits : i <= j

\* A variant of MergeExisting that appends every announced publication,
\* known or not.
MergeExistingNoFilter(existing, user) ==
    LET newPushers == PayloadPushers(user)
        merged == [existing EXCEPT
                     !.userName = IF user.userName # Undefined
                                  THEN user.userName ELSE @,
                     !.pushers = @ \o newPushers]
    IN IF existing.receivePcWrap.present /\ Len(newPushers) > 0
       THEN [merged EXCEPT
               !.receivePcWrap = addTransceivers(@, SpecsOf(newPushers))]
       ELSE IF ~existing.receivePcWrap.present /\ Len(merged.pushers) > 0
            THEN [merged EXCEPT
                    !.receivePcWrap = addTransceivers(NewPCWrap, SpecsOf(merged.pushers)),
                    !.playStream = StreamAfter(existing.playStream)]
            ELSE merged

\* A variant of MergeExisting that takes the payload's userName as it is, a
\* missing one included.
MergeExistingTakeName(existing, user) ==
    LET newPushers == PayloadPushers(user)
        pusherIds == PusherIdsOf(existing.pushers)
        IsNew(p) == p.pusherId \notin pusherIds
        fresh == SelectSeq(newPushers, IsNew)
        merged == [existing EXCEPT !.userName = user.userName,
                                   !.pushers = @ \o fresh]
    IN IF existing.receivePcWrap.present /\ Len(newPushers) > 0
       THEN IF Len(fresh) > 0
            THEN [merged EXCEPT
                    !.receivePcWrap = addTransceivers(@, SpecsOf(fresh))]
            ELSE merged
       ELSE IF ~existing.receivePcWrap.present /\ Len(merged.pushers) > 0
            THEN [merged EXCEPT
                    !.receivePcWrap = addTransceivers(NewPCWrap, SpecsOf(merged.pushers)),
                    !.playStream = StreamAfter(existing.playStream)]
            ELSE merged

\* A variant of MergeExisting that gives the participant a new MediaStream
\* whenever it extends the session with new publications.
MergeExistingNewBuffer(existing, user) ==
    LET newPushers == PayloadPushers(user)
        pusherIds == PusherIdsOf(existing.pushers)
        IsNew(p) == p.pusherId \notin pusherIds
        fresh == SelectSeq(newPushers, IsNew)
        merged == [existing EXCEPT
                     !.userName = IF user.userName # Undefined
                                  THEN user.userName ELSE @,
                     !.pushers = @ \o fresh]
    IN IF existing.receivePcWrap.present /\ Len(newPushers) > 0
       THEN IF Len(fresh) > 0
            THEN [merged EXCEPT
                    !.receivePcWrap = addTransceivers(@, SpecsOf(fresh)),
                    !.playStream = StreamAfter(existing.playStream)]
            ELSE merged
       ELSE IF ~existing.receivePcWrap.present /\ Len(merged.pushers) > 0
            THEN [merged EXCEPT
                    !.receivePcWrap = addTransceivers(NewPCWrap, SpecsOf(merged.pushers)),
                    !.playStream = StreamAfter(existing.playStream)]
            ELSE merged

\* The update of an existing entry (the idx >= 0 branch of upsertRemoteUser).
MergeExisting(existing, user) ==
    LET newPushers == PayloadPushers(user)
        pusherIds == PusherIdsOf(existing.pushers)
        IsNew(p) == p.pusherId \notin pusherIds
        fresh == SelectSeq(newPushers, IsNew)
        merged == [existing EXCEPT
                     !.userName = IF user.userName # Undefined
                                  THEN user.userName ELSE @,
                     !.pushers = @ \o fresh]
    IN IF existing.receivePcWrap.present /\ Len(newPushers) > 0
       THEN IF Len(fresh) > 0
            THEN [merged EXCEPT
                    !.receivePcWrap = addTransceivers(@, SpecsOf(fresh))]
            ELSE merged
       ELSE IF ~existing.receivePcWrap.present /\ Len(merged.pushers) > 0
            THEN [merged EXCEPT
                    !.receivePcWrap = addTransceivers(NewPCWrap, SpecsOf(merged.pushers)),
                    !.playStream = StreamAfter(existing.playStream)]
            ELSE merged

\* upsertRemoteUser(user): the table after the call.
upsertRemoteUser(table, user) ==
    LET idx == FindIdx(table, user.userId)
    IN IF idx > 0
       THEN [table EXCEPT ![idx] = MergeExisting(table[idx], user)]
       ELSE Append(table, createRemoteUser(user))

\* The position in the table of the entry upsertRemoteUser returns.
UpsertedIdx(table, user) ==
    LET idx == FindIdx(table, user.userId)
    IN IF idx > 0 THEN idx ELSE Len(table) + 1

\* ------------------------------------------------- App.vue: pullRemoteUser
\* One invocation of pullRemoteUser. target/specs are its arguments; origin
\* is the handler that made the call, announced the publication ids its
\* payload listed and added the publication ids that handler's upsert added
\* to the participant (all three kept for the claims);
\* pc is the call's position:
\*   "notfound"  threw at the lookup (no such user, or no receivePcWrap)
\*   "rejected"  threw later (offer, pull request, non-zero response code)
\*   "offer"     awaiting createOfferAndEmit()
\*   "pull"      awaiting the response to the 'pull' request
\*   "tracks"    answer applied, track listener attached, awaiting trackPromise
\*   "done"      tracks added to playStream, call resolved
\* offer is the set of transceivers (by position) the offer described,
\* code the code of the 'pull' response (-1 while there is none), and
\* tracks the call-local array of collected tracks (by transceiver position).
\* answer tells what became of the answer the call handed to
\* setRemoteDescription(): "none" (not handed over yet), "applied" or
\* "failed".
\* left tells that userLeave has removed the participant object the call
\* holds (its receivePcWrap is then closed and undefined).
\* mutedAtCall and mutedAtAdd are the kinds whose mute flag was set when the
\* call was made and when it added its tracks (kept for the claims).
PullCall(target, specs, origin, announced, added, pc) ==
    [target |-> target, specs |-> specs, origin |-> origin,
     announced |-> announced, added |-> added,
     pc |-> pc, offer |-> {}, code |-> -1, answer |-> "none",
     tracks |-> <<>>, left |-> FALSE, mutedAtCall |-> {}, mutedAtAdd |-> {}]

\* The kinds whose mute flag is set on a participant (undefined is not set).
MutedKinds(user) ==
    {kind \in {"audio", "video"} :
        \/ kind = "video" /\ user.videoMuted = "true"
        \/ kind = "audio" /\ user.audioMuted = "true"}

\* A variant of StartPull that throws at the lookup only when no entry has
\* the target id: an entry without receivePcWrap goes on to the offer.
StartPullUnchecked(table, calls, target, specs, origin, announced, added) ==
    LET hits == {i \in 1..Len(table) : table[i].userId = target}
        pc == IF hits = {} THEN "notfound"
              ELSE IF \A i \in hits : Len(table[i].receivePcWrap.transceivers) = 0
                   THEN "rejected"
                   ELSE "offer"
    IN Append(calls, PullCall(target, specs, origin, announced, added, pc))

\* remoteUsers.value.find(u => u.userId === targetUserId): position or 0.
FindUser(table, targetUserId) ==
    LET hits == {i \in 1..Len(table) : table[i].userId = targetUserId}
    IN IF hits = {} THEN 0 ELSE CHOOSE i \in hits : \A j \in hits : i <= j

\* A variant of NoTransceivers for a createOfferAndEmit that does not look
\* at the transceivers of a recvonly connection.
NoTransceiversUnchecked(w) == FALSE

\* createOfferAndEmit(), direction 'recvonly':
\* pc.getTransceivers().length === 0, on which it throws.
NoTransceivers(w) == Len(w.transceivers) = 0

\* The synchronous part of pullRemoteUser, up to its first suspension: the
\* lookup, then createOfferAndEmit's check that a recvonly connection has
\* transceivers, then pc.createOffer() is pending.
StartPull(table, calls, target, specs, origin, announced, added) ==
    LET i == FindUser(table, target)
        pc == IF i = 0 \/ ~table[i].receivePcWrap.present THEN "notfound"
              ELSE IF NoTransceivers(table[i].receivePcWrap) THEN "rejected"
              ELSE "offer"
        muted == IF i = 0 THEN {} ELSE MutedKinds(table[i])
    IN Append(calls, [PullCall(target, specs, origin, announced, added, pc)
                         EXCEPT !.mutedAtCall = muted])

\* A variant of JoinPulls that calls pullRemoteUser for every participant.
RECURSIVE JoinPullsAll(_, _, _)
JoinPullsAll(table, calls, i) ==
    IF i > Len(table) THEN calls
    ELSE JoinPullsAll(table,
                      StartPull(table, calls, table[i].userId,
                                SpecsOf(table[i].pushers), "join", {}, {}),
                      i + 1)

\* if pushers exist, call pullRemoteUser: remoteUsers.value.forEach(...) of
\* onJoin, from table position i on.
RECURSIVE JoinPulls(_, _, _)
JoinPulls(table, calls, i) ==
    IF i > Len(table) THEN calls
    ELSE IF Len(table[i].pushers) > 0
         THEN JoinPulls(table,
                        StartPull(table, calls, table[i].userId,
                                  SpecsOf(table[i].pushers), "join", {}, {}),
                        i + 1)
         ELSE JoinPulls(table, calls, i + 1)

\* for (const u of response.users) upsertRemoteUser(u)
RECURSIVE UpsertAll(_, _)
UpsertAll(table, users) ==
    IF users = <<>> THEN table
    ELSE UpsertAll(upsertRemoteUser(table, Head(users)), Tail(users))

\* The publication ids of the entry with this raw id, {} when it is absent.
KnownPusherIds(table, rawId) ==
    LET i == FindIdx(table, rawId)
    IN IF i = 0 THEN {} ELSE PusherIdsOf(table[i].pushers)

\* The specs a notification handler passes to pullRemoteUser for the entry
\* it has just upserted: every publication of the entry.
NotifPullSpecs(remoteUser) == SpecsOf(remoteUser.pushers)

\* The newUser loop: upsert each listed user and, when it has publications,
\* call pullRemoteUser for it. The result is the pair <<table, calls>>.
RECURSIVE NewUserLoop(_, _, _)
NewUserLoop(table, calls, users) ==
    IF users = <<>> THEN <<table, calls>>
    ELSE LET u == Head(users)
             t2 == upsertRemoteUser(table, u)
             remoteUser == t2[UpsertedIdx(table, u)]
             added == PusherIdsOf(remoteUser.pushers) \ KnownPusherIds(table, u.userId)
             c2 == IF Len(remoteUser.pushers) = 0 THEN calls
                   ELSE StartPull(t2, calls, remoteUser.userId,
                                  NotifPullSpecs(remoteUser), "newUser",
                                  PusherIdsOf(PayloadPushers(u)), added)
         IN NewUserLoop(t2, c2, Tail(users))

\* ------------------------------------------------------------------ state
VARIABLES
    remoteUsers,       \* App.vue remoteUsers: the Room Membership Table
    wsStatus,          \* App.vue wsStatus
    peer,              \* ProtooClientWrap.peer: "null", "connecting", "open", "closed"
    joinPc,            \* the onJoin call past connect(): "idle", "connect", "request", "done", "failed"
    joinResp,          \* the response onJoin received: its code and the
                       \* normalized ids of the users it listed
    pulls,             \* every pullRemoteUser invocation, in call order
    lastAlert,         \* the last alert() shown
    joinCalls,         \* onJoin invocations so far
    transports,        \* WebSocketTransport objects created so far
    joinRequests,      \* 'join' requests handed to the peer so far
    delivered,         \* participant payloads received so far
    sendPcWarp,        \* App.vue sendPcWarp: the Local Publish Session
    pubs,              \* every onOpenDevices invocation that passed its guard
    openCalls,         \* onOpenDevices invocations so far
    captureRequests,   \* getUserMedia() calls so far
    pushRequests,      \* 'push' requests handed to the peer so far
    removed,           \* the participant objects userLeave has removed, with
                       \* the session each held as close() left it
    lastNotif,         \* the last userLeave / userDisconnect / userReconnect
                       \* notification handled
    invocations,       \* every call of onNotification the stepwise reducer
                       \* has received, in delivery order
    chatMessages,      \* App.vue chatMessages: the chat log
    sends,             \* every sendMessage invocation, in call order
    heartbeat,         \* the 'heartbeat' requests of the timer: issued,
                       \* awaiting their response, and failed
    recvSession,       \* a PCWrap of direction 'recvonly' used on its own,
                       \* and the outcome of each createOfferAndEmit() on it
    wsWrap,            \* a ProtooClientWrap used on its own: its peer, its
                       \* url, the transports it created, what it handed to
                       \* a peer and the outcome of each call on it
    iceSession,        \* a PCWrap whose createOfferAndEmit() is followed
                       \* through ICE gathering
    devices            \* an object with openDevices() (a PCWrap or a
                       \* Device) and the capture streams it acquired

pubVars == <<sendPcWarp, pubs, openCalls, captureRequests, pushRequests,
             removed, lastNotif, invocations, chatMessages, sends, heartbeat, recvSession, wsWrap, iceSession, devices>>

vars == <<remoteUsers, wsStatus, peer, joinPc, joinResp, pulls, lastAlert,
          joinCalls, transports, joinRequests, delivered, sendPcWarp, pubs,
          openCalls, captureRequests, pushRequests, removed, lastNotif,
          invocations, chatMessages, sends, heartbeat, recvSession, wsWrap, iceSession, devices>>

\* this.url === null
NoUrl == "null"

\* new ProtooClientWrap(options): no peer, no url. made lists the url of
\* every transport created, listeners names the peer (by its position in
\* made) the event handlers are registered on, handed lists what was given
\* to a peer, calls the outcome of every call.
NewProtooClientWrap ==
    [peer |-> "null", url |-> NoUrl, made |-> <<>>, listeners |-> 0,
     handed |-> <<>>, calls |-> <<>>]

\* new PCWrap({direction: 'sendonly', trickleIce}) before its first offer.
\* trickleIce is the option as given ("undefined", "true" or "false"), pc
\* the position of the createOfferAndEmit() call ("idle", "offer" while
\* createOffer() and setLocalDescription() are awaited, "waiting" for ICE
\* gathering, "returned", "rejected"), gathering and connection the states
\* of the RTCPeerConnection, calls and emitted the calls made and offers
\* emitted so far, atEmit the gathering state at the last emission.
NewIceSession ==
    [trickleIce |-> "undefined", pc |-> "idle", gathering |-> "new",
     connection |-> "new", calls |-> 0, emitted |-> 0, atEmit |-> "none"]

\* new Device() / new PCWrap({direction: 'sendonly'}): no stream. Streams are
\* numbered in the order getUserMedia() resolves with them. stream is the
\* one retained (0: null), acquired their count, stopped those whose tracks
\* were stopped, calls the openDevices() calls made, pending those awaiting
\* getUserMedia(), returned what each finished call returned (0: it threw).
NewDevice ==
    [stream |-> 0, acquired |-> 0, stopped |-> {}, calls |-> 0,
     pending |-> 0, returned |-> <<>>]

\* sendPcWarp.value === null
NoSendPCWrap ==
    [present |-> FALSE, localStream |-> 0, pcOpen |-> FALSE, senders |-> 0,
     remoteSet |-> FALSE]

NoResponse == [code |-> -1, listed |-> {}]

NoNotification == [method |-> "none", userId |-> Str(<<>>)]

\* The normalized ids of the users a response lists.
ListedIds(resp) ==
    {normalizeId(resp.users.items[i].userId) : i \in 1..Len(resp.users.items)}

Init ==
    /\ remoteUsers = <<>>
    /\ wsStatus = "disconnected"
    /\ peer = "null"
    /\ joinPc = "idle"
    /\ joinResp = NoResponse
    /\ pulls = <<>>
    /\ lastAlert = "none"
    /\ joinCalls = 0
    /\ transports = 0
    /\ joinRequests = 0
    /\ delivered = 0
    /\ sendPcWarp = NoSendPCWrap
    /\ pubs = <<>>
    /\ openCalls = 0
    /\ captureRequests = 0
    /\ pushRequests = 0
    /\ removed = <<>>
    /\ lastNotif = NoNotification
    /\ invocations = <<>>
    /\ chatMessages = <<>>
    /\ sends = <<>>
    /\ heartbeat = [issued |-> 0, pending |-> 0, failed |-> 0]
    /\ recvSession = [w |-> NewPCWrap, offers |-> <<>>]
    /\ wsWrap = NewProtooClientWrap
    /\ iceSession = NewIceSession
    /\ devices = NewDevice

\* ------------------------------------------- ProtooClientWrap.ts: connect
\* A variant of the connect() guard that never throws.
ConnectAcceptedAlways(p) == TRUE

\* A variant of the connect() guard that only refuses while the peer is
\* open.
ConnectAcceptedUnlessOpen(p) == p # "open"

\* connect() throws 'Already connected' when this.peer is set.
ConnectAccepted(p) == p = "null"

\* sendRequest()/sendNotify() throw when there is no peer or it is closed.
SendAccepted(p) == p \notin {"null", "closed"}

\* --------------------------------------------------------- App.vue: onJoin
\* The Join button. connect() either throws at once (alert, return) or
\* creates the transport and the peer and waits for 'open' or 'failed'.
onJoin ==
    /\ joinCalls < MaxJoinCalls
    /\ joinCalls' = joinCalls + 1
    /\ IF ConnectAccepted(peer)
       THEN /\ peer' = "connecting"
            /\ transports' = transports + 1
            /\ joinPc' = "connect"
            /\ UNCHANGED lastAlert
       ELSE /\ lastAlert' = "Failed to connect"
            /\ UNCHANGED <<peer, transports, joinPc>>
    /\ UNCHANGED <<remoteUsers, wsStatus, joinResp, pulls, joinRequests, delivered>>
    /\ UNCHANGED pubVars

\* The peer's 'open' event: onOpen sets the status; the pending connect()
\* resolves and onJoin goes on to send the 'join' request.
PeerOpen ==
    /\ peer = "connecting"
    /\ peer' = "open"
    /\ wsStatus' = "connected"
    /\ IF joinPc = "connect"
       THEN /\ joinPc' = "request"
            /\ joinRequests' = joinRequests + 1
       ELSE UNCHANGED <<joinPc, joinRequests>>
    /\ UNCHANGED <<remoteUsers, joinResp, pulls, lastAlert, joinCalls,
                   transports, delivered>>
    /\ UNCHANGED pubVars

\* The peer's 'failed' event while connect() is pending: connect() rejects,
\* onJoin alerts and returns. this.peer stays set.
PeerFailed ==
    /\ peer = "connecting"
    /\ joinPc = "connect"
    /\ joinPc' = "failed"
    /\ lastAlert' = "Failed to connect"
    /\ UNCHANGED <<remoteUsers, wsStatus, peer, joinResp, pulls, joinCalls,
                   transports, joinRequests, delivered>>
    /\ UNCHANGED pubVars

\* The peer's 'close' event: onClose sets the status.
PeerClose ==
    /\ peer \in {"connecting", "open", "disconnected"}
    /\ peer' = "closed"
    /\ wsStatus' = "disconnected"
    /\ UNCHANGED <<remoteUsers, joinPc, joinResp, pulls, lastAlert, joinCalls,
                   transports, joinRequests, delivered>>
    /\ UNCHANGED pubVars

\* The peer's 'disconnected' event: the transport has lost its socket and
\* retries. The peer is not closed, and App.vue passes no onDisconnected
\* handler, so the status stays as it is.
PeerDisconnected ==
    /\ peer = "open"
    /\ peer' = "disconnected"
    /\ UNCHANGED <<remoteUsers, wsStatus, joinPc, joinResp, pulls, lastAlert,
                   joinCalls, transports, joinRequests, delivered>>
    /\ UNCHANGED pubVars

\* The peer's 'open' event after 'disconnected': the transport has a socket
\* again. The handler of 'open' runs as for the first one, and onOpen sets
\* the status.
PeerReopen ==
    /\ peer = "disconnected"
    /\ peer' = "open"
    /\ wsStatus' = "connected"
    /\ UNCHANGED <<remoteUsers, joinPc, joinResp, pulls, lastAlert, joinCalls,
                   transports, joinRequests, delivered>>
    /\ UNCHANGED pubVars

\* A variant of JoinRequestRejected in which the status was set to 'joined'
\* before the request was awaited.
JoinRequestRejectedJoined ==
    /\ joinPc = "request"
    /\ joinPc' = "failed"
    /\ lastAlert' = "Join failed"
    /\ wsStatus' = "joined"
    /\ UNCHANGED <<remoteUsers, peer, joinResp, pulls, joinCalls,
                   transports, joinRequests, delivered>>
    /\ UNCHANGED pubVars

\* The 'join' request rejects (transport error, timeout, error response):
\* the catch block of onJoin alerts.
JoinRequestRejected ==
    /\ joinPc = "request"
    /\ joinPc' = "failed"
    /\ lastAlert' = "Join failed"
    /\ UNCHANGED <<remoteUsers, wsStatus, peer, joinResp, pulls, joinCalls,
                   transports, joinRequests, delivered>>
    /\ UNCHANGED pubVars

\* The status onJoin sets when the 'join' request resolves.
JoinStatus(resp) == "joined"

\* The table after onJoin has parsed the users of the response.
JoinUpsert(table, resp) ==
    IF resp.code = 0 /\ resp.users.isArray
    THEN UpsertAll(table, resp.users.items)
    ELSE table

\* The 'join' request resolves with resp.
JoinResponse(resp) ==
    /\ joinPc = "request"
    /\ peer = "open"
    /\ joinPc' = "done"
    /\ joinResp' = [code |-> resp.code, listed |-> ListedIds(resp)]
    /\ wsStatus' = JoinStatus(resp)
    /\ remoteUsers' = JoinUpsert(remoteUsers, resp)
    /\ pulls' = JoinPulls(remoteUsers', pulls, 1)
    /\ delivered' = delivered + Len(resp.users.items)
    /\ UNCHANGED <<peer, lastAlert, joinCalls, transports, joinRequests>>
    /\ UNCHANGED pubVars

\* ------------------------------------------------ App.vue: onNotification
\* 'newUser' with data = users.
NewUser(users) ==
    /\ peer = "open"
    /\ LET r == NewUserLoop(remoteUsers, pulls, users)
       IN /\ remoteUsers' = r[1]
          /\ pulls' = r[2]
    /\ delivered' = delivered + Len(users)
    /\ UNCHANGED <<wsStatus, peer, joinPc, joinResp, lastAlert, joinCalls,
                   transports, joinRequests>>
    /\ UNCHANGED pubVars

\* 'newPusher' with data = user: the upsert, then pullRemoteUser for the
\* entry when it has publications. The result is the pair <<table, calls>>.
NewPusherMerge(table, calls, user) ==
    LET t2 == upsertRemoteUser(table, user)
        remoteUser == t2[UpsertedIdx(table, user)]
        added == PusherIdsOf(remoteUser.pushers)
                     \ KnownPusherIds(table, user.userId)
    IN <<t2, IF Len(remoteUser.pushers) > 0
             THEN StartPull(t2, calls, remoteUser.userId,
                            NotifPullSpecs(remoteUser), "newPusher",
                            PusherIdsOf(PayloadPushers(user)), added)
             ELSE calls>>

NewPusher(user) ==
    /\ peer = "open"
    /\ LET r == NewPusherMerge(remoteUsers, pulls, user)
       IN /\ remoteUsers' = r[1]
          /\ pulls' = r[2]
    /\ delivered' = delivered + 1
    /\ UNCHANGED <<wsStatus, peer, joinPc, joinResp, lastAlert, joinCalls,
                   transports, joinRequests>>
    /\ UNCHANGED pubVars

\* --------------------------------- App.vue: pullRemoteUser, after the start
PullVars == <<wsStatus, peer, joinPc, joinResp, lastAlert, joinCalls,
              transports, joinRequests, delivered, sendPcWarp, pubs, openCalls,
              captureRequests, pushRequests, removed, lastNotif, invocations,
              chatMessages, sends, heartbeat, recvSession, wsWrap, iceSession, devices>>

\* createOfferAndEmit() of call k resolves: the offer describes every
\* transceiver the connection has by now. pullRemoteUser then sends the
\* 'pull' request, which throws when there is no usable peer. The offer of
\* a connection that userLeave has closed is never produced.
PullOfferCreated(k) ==
    /\ pulls[k].pc = "offer"
    /\ ~pulls[k].left
    /\ LET i == FindUser(remoteUsers, pulls[k].target)
           all == 1..Len(remoteUsers[i].receivePcWrap.transceivers)
       IN pulls' = [pulls EXCEPT
                      ![k].offer = all,
                      ![k].pc = IF SendAccepted(peer) THEN "pull" ELSE "rejected"]
    /\ UNCHANGED remoteUsers
    /\ UNCHANGED PullVars

\* createOffer() or setLocalDescription() of call k rejects.
PullOfferFailed(k) ==
    /\ pulls[k].pc = "offer"
    /\ pulls' = [pulls EXCEPT ![k].pc = "rejected"]
    /\ UNCHANGED remoteUsers
    /\ UNCHANGED PullVars

\* The 'pull' request of call k rejects.
PullRequestRejected(k) ==
    /\ pulls[k].pc = "pull"
    /\ pulls' = [pulls EXCEPT ![k].pc = "rejected"]
    /\ UNCHANGED remoteUsers
    /\ UNCHANGED PullVars

\* setLocalDescription(offer) gives the transceiver at position t, the
\* media line t - 1 of the offer, its mid: a token of its own, never ''.
NegotiatedMid(t) == ToString(t - 1)

\* setRemoteDescription(answer) is called (and not awaited): the receiver of
\* every transceiver the offer described, and that was never negotiated
\* before, will deliver its track when the description has been set.
ApplyAnswer(w, offer) ==
    [w EXCEPT !.transceivers =
        [t \in 1..Len(@) |->
            IF t \in offer /\ @[t].st = "new" THEN [@[t] EXCEPT !.st = "live"]
            ELSE @[t]]]

\* A variant of PullResponse that applies the answer and attaches the
\* listener before it looks at the code.
PullResponseApplyFirst(k, code) ==
    /\ pulls[k].pc = "pull"
    /\ ~pulls[k].left
    /\ peer = "open"
    /\ LET i == FindUser(remoteUsers, pulls[k].target)
       IN /\ pulls' = [pulls EXCEPT ![k].pc = IF code # 0 THEN "rejected" ELSE "tracks",
                                     ![k].code = code]
          /\ remoteUsers' = [remoteUsers EXCEPT ![i].receivePcWrap =
                                ApplyAnswer(@, pulls[k].offer)]
    /\ UNCHANGED PullVars

\* The response to the 'pull' request of call k arrives. A non-zero code
\* throws; otherwise setRemoteDescription(answer) is called and the track
\* listener of this call is attached. When userLeave has removed the
\* participant, remoteUser.receivePcWrap is undefined and the call throws.
PullResponse(k, code) ==
    /\ pulls[k].pc = "pull"
    /\ peer = "open"
    /\ LET i == FindUser(remoteUsers, pulls[k].target)
       IN IF code # 0 \/ pulls[k].left
          THEN /\ pulls' = [pulls EXCEPT ![k].pc = "rejected", ![k].code = code]
               /\ UNCHANGED remoteUsers
          ELSE /\ pulls' = [pulls EXCEPT ![k].pc = "tracks", ![k].code = code,
                                          ![k].answer = "applied"]
               /\ remoteUsers' = [remoteUsers EXCEPT ![i].receivePcWrap =
                                     ApplyAnswer(@, pulls[k].offer)]
    /\ UNCHANGED PullVars

\* The response to the 'pull' request of call k arrives with code 0 and
\* the connection refuses its answer: the promise pc.setRemoteDescription()
\* returns rejects. PCWrap.setRemoteDescription neither awaits nor returns
\* that promise, so it has returned normally, and pullRemoteUser has gone
\* on to attach its track listener and wait.
PullAnswerFails(k) ==
    /\ pulls[k].pc = "pull"
    /\ ~pulls[k].left
    /\ peer = "open"
    /\ pulls' = [pulls EXCEPT ![k].pc = "tracks", ![k].code = 0,
                              ![k].answer = "failed"]
    /\ UNCHANGED remoteUsers
    /\ UNCHANGED PullVars

\* A variant of AddTracks that adds each track as it is.
RECURSIVE AddTracksAsIs(_, _)
AddTracksAsIs(user, tracks) ==
    IF tracks = <<>> THEN user
    ELSE AddTracksAsIs([user EXCEPT !.playStream.tracks = @ \cup {Head(tracks)}],
                       Tail(tracks))

\* "Add all tracks to playStream": each collected track is disabled when the
\* participant's flag for its kind is set, then added to playStream.
RECURSIVE AddTracks(_, _)
AddTracks(user, tracks) ==
    IF tracks = <<>> THEN user
    ELSE LET t == Head(tracks)
             kind == user.receivePcWrap.transceivers[t].kind
             off == \/ kind = "video" /\ user.videoMuted = "true"
                    \/ kind = "audio" /\ user.audioMuted = "true"
             u2 == [user EXCEPT
                      !.receivePcWrap.transceivers[t].enabled =
                          IF off THEN FALSE ELSE @,
                      !.playStream.tracks = @ \cup {t}]
         IN AddTracks(u2, Tail(tracks))

\* "Bind playStream to video element if available"
BindPlayStream(user) ==
    IF user.videoRef # NoVideoRef /\ user.playStream.present
    THEN [user EXCEPT !.videoRef = "bound"]
    ELSE user

\* The number of tracks a call waits for.
ExpectedTrackCount(call) == Len(call.specs)

\* The 'track' event for transceiver t is dispatched to the listeners of the
\* calls from position k on, in registration order. A listener pushes the
\* track; when it has collected the expected count it detaches, and the call
\* resumes and adds its tracks to playStream. The result is <<user, calls>>.
RECURSIVE Dispatch(_, _, _, _)
Dispatch(user, calls, k, t) ==
    IF k > Len(calls) THEN <<user, calls>>
    ELSE IF calls[k].target = user.userId /\ calls[k].pc = "tracks"
               /\ ~calls[k].left
         THEN LET got == Append(calls[k].tracks, t)
                  complete == Len(got) >= ExpectedTrackCount(calls[k])
                  c2 == [calls EXCEPT ![k].tracks = got,
                                      ![k].pc = IF complete THEN "done" ELSE @,
                                      ![k].mutedAtAdd =
                                          IF complete THEN MutedKinds(user) ELSE @]
                  u2 == IF complete THEN BindPlayStream(AddTracks(user, got))
                        ELSE user
              IN Dispatch(u2, c2, k + 1, t)
         ELSE Dispatch(user, calls, k + 1, t)

\* The 'track' events of the transceivers from position t on whose track is
\* to be delivered, in transceiver order. The result is <<user, calls>>.
RECURSIVE DeliverFrom(_, _, _)
DeliverFrom(user, calls, t) ==
    IF t > Len(user.receivePcWrap.transceivers) THEN <<user, calls>>
    ELSE IF user.receivePcWrap.transceivers[t].st = "live"
         THEN LET fired == [user EXCEPT
                              !.receivePcWrap.transceivers[t].st = "fired"]
                  r == Dispatch(fired, calls, 1, t)
              IN DeliverFrom(r[1], r[2], t + 1)
         ELSE DeliverFrom(user, calls, t + 1)

\* setRemoteDescription() of participant i's connection completes: pc.ontrack
\* fires, in one task, for every transceiver the answer negotiated.
TracksArrive(i) ==
    /\ \E t \in 1..Len(remoteUsers[i].receivePcWrap.transceivers) :
           remoteUsers[i].receivePcWrap.transceivers[t].st = "live"
    /\ LET r == DeliverFrom(remoteUsers[i], pulls, 1)
       IN /\ remoteUsers' = [remoteUsers EXCEPT ![i] = r[1]]
          /\ pulls' = r[2]
    /\ UNCHANGED PullVars

\* ------------------------------------- App.vue: the participant's <video>
\* The ref callback of participant i's <video> element, run when the card
\* is rendered: the element is stored and, when playStream has tracks and
\* the element shows nothing, bound to playStream.
videoRefCallback(i) ==
    /\ remoteUsers' = [remoteUsers EXCEPT ![i].videoRef =
          IF remoteUsers[i].playStream.present
                /\ remoteUsers[i].playStream.tracks # {} /\ @ # "bound"
          THEN "bound"
          ELSE IF @ = NoVideoRef THEN "unbound" ELSE @]
    /\ UNCHANGED pulls
    /\ UNCHANGED PullVars

\* ------------------------- App.vue: userLeave, userDisconnect, userReconnect
\* u.userId === userId for a stored id and the id a notification carries.
StrictEquals(stored, id) == id.kind = "str" /\ id.s = stored

\* remoteUsers.value.findIndex(u => u.userId === userId): position or 0.
FindIndex(table, id) ==
    LET hits == {i \in 1..Len(table) : StrictEquals(table[i].userId, id)}
    IN IF hits = {} THEN 0 ELSE CHOOSE i \in hits : \A j \in hits : i <= j

\* PCWrap.close(): the peer connection is closed and dropped.
PCWrapClose(w) == [w EXCEPT !.pcOpen = FALSE, !.transceivers = <<>>]

\* remoteUsers.value.splice(idx, 1)
Splice(table, idx) ==
    [j \in 1..(Len(table) - 1) |-> IF j < idx THEN table[j] ELSE table[j + 1]]

\* The notifications whose data is {userId}.
Notification(method, id) == [method |-> method, userId |-> id]

\* 'userLeave' with data.userId = id: the entry found by strict comparison
\* has its receive session closed and dropped and its <video> cleared, and
\* is removed from the table. The calls of pullRemoteUser that hold the
\* removed object now hold one without receivePcWrap. The result is the
\* table, the calls and the removed objects after the handler.
Leave(table, calls, gone, id) ==
    LET idx == FindIndex(table, id)
    IN IF idx > 0
       THEN LET user == table[idx]
            IN [table |-> Splice(table, idx),
                pulls |-> [k \in 1..Len(calls) |->
                              IF calls[k].target = user.userId
                              THEN [calls[k] EXCEPT !.left = TRUE]
                              ELSE calls[k]],
                removed |-> Append(gone,
                     [user |-> [user EXCEPT !.receivePcWrap = NoPCWrap,
                                            !.videoRef = NoVideoRef],
                      session |-> IF user.receivePcWrap.present
                                  THEN PCWrapClose(user.receivePcWrap)
                                  ELSE NoPCWrap])]
       ELSE [table |-> table, pulls |-> calls, removed |-> gone]

userLeave(id) ==
    /\ peer = "open"
    /\ lastNotif' = Notification("userLeave", id)
    /\ LET after == Leave(remoteUsers, pulls, removed, id)
       IN /\ remoteUsers' = after.table
          /\ pulls' = after.pulls
          /\ removed' = after.removed
    /\ UNCHANGED <<wsStatus, peer, joinPc, joinResp, lastAlert, joinCalls,
                   transports, joinRequests, delivered, sendPcWarp, pubs,
                   openCalls, captureRequests, pushRequests, invocations,
                   chatMessages, sends, heartbeat, recvSession, wsWrap, iceSession, devices>>

\* 'userDisconnect' / 'userReconnect' with data.userId = id: the entry found
\* by strict comparison gets the state.
WithState(table, id, state) ==
    LET idx == FindIndex(table, id)
    IN IF idx > 0 THEN [table EXCEPT ![idx].state = state] ELSE table

SetUserState(method, id, state) ==
    /\ peer = "open"
    /\ lastNotif' = Notification(method, id)
    /\ remoteUsers' = WithState(remoteUsers, id, state)
    /\ UNCHANGED <<wsStatus, peer, joinPc, joinResp, pulls, lastAlert, joinCalls,
                   transports, joinRequests, delivered, sendPcWarp, pubs,
                   openCalls, captureRequests, pushRequests, removed,
                   invocations, chatMessages, sends, heartbeat, recvSession, wsWrap, iceSession, devices>>

userDisconnect(id) == SetUserState("userDisconnect", id, "disconnected")

userReconnect(id) == SetUserState("userReconnect", id, "connected")

\* ------------------------ App.vue: onNotification, statement by statement
\* A notification as ProtooClientWrap hands it to onNotification. users is
\* the data of 'newUser' (a list) or of 'newPusher' (one user); userId is
\* data.userId of the other methods; userName and message are the rest of
\* the data of 'textMessage'.
ProtooNotification(method, users, userId, userName, message) ==
    [method |-> method, users |-> users, userId |-> userId,
     userName |-> userName, message |-> message]

\* payload.message: a string, or a value of another type.
Text(t) == [isString |-> TRUE, text |-> t]
NoText == [isString |-> FALSE, text |-> ""]

\* A variant of ChatEntry that marks the entry as the local user's and
\* keeps the id as the payload spelled it.
ChatEntryAsSelf(n) ==
    [userId |-> JsString(n.userId),
     userName |-> IF n.userName = Undefined THEN n.userId
                  ELSE Str(<<n.userName>>),
     message |-> n.message.text,
     self |-> TRUE]

\* The entry the 'textMessage' branch pushes to chatMessages (its time
\* stamp left out): the id normalized, the name falling back to the raw id.
ChatEntry(n) ==
    [userId |-> normalizeId(n.userId),
     userName |-> IF n.userName = Undefined THEN n.userId
                  ELSE Str(<<n.userName>>),
     message |-> n.message.text,
     self |-> FALSE]

\* The statements of the handler that write the table or the chat log: one
\* per listed user for 'newUser', one for every other method.
StepsOf(n) == IF n.method = "newUser" THEN Len(n.users) ELSE 1

\* The table after the first k such statements of the handler of n, run
\* from table with nothing in between.
TableAfter(table, n, k) ==
    IF k = 0 THEN table
    ELSE CASE n.method = "newUser" ->
                NewUserLoop(table, <<>>, SubSeq(n.users, 1, k))[1]
           [] n.method = "newPusher" ->
                NewPusherMerge(table, <<>>, n.users[1])[1]
           [] n.method = "userLeave" -> Leave(table, <<>>, <<>>, n.userId).table
           [] n.method = "userDisconnect" ->
                WithState(table, n.userId, "disconnected")
           [] n.method = "userReconnect" ->
                WithState(table, n.userId, "connected")
           [] OTHER -> table

\* The chat log after the first k such statements of the handler of n.
ChatAfter(chat, n, k) ==
    IF k > 0 /\ n.method = "textMessage" /\ n.message.isString
    THEN Append(chat, ChatEntry(n))
    ELSE chat

\* One call of onNotification: pos is the next statement to run, done tells
\* that the handler has returned, before is the table and the chat log the
\* call found, after the table and the chat log its last statement left.
Invocation(n, table, chat) ==
    [notif |-> n, pos |-> 1, done |-> StepsOf(n) = 0,
     before |-> [table |-> table, chat |-> chat],
     after |-> [table |-> table, chat |-> chat]]

\* A variant of HoldsThread for a 'newUser' loop that awaits each
\* pullRemoteUser: past its first user the call is suspended.
HoldsThreadUntilPull(h) ==
    ~h.done /\ ~(h.notif.method = "newUser" /\ h.pos > 1)

\* onNotification is not an async function and contains no await, and
\* ProtooClientWrap calls it synchronously from the peer's 'notification'
\* listener: a call holds the thread from its start until it returns.
HoldsThread(h) == ~h.done

\* No call of onNotification holds the thread: the event loop may run the
\* next task (a notification, a response, a continuation of a pending call).
ThreadFree == \A i \in 1..Len(invocations) : ~HoldsThread(invocations[i])

\* The peer emits 'notification' and ProtooClientWrap calls onNotification.
onNotification(n) ==
    /\ peer = "open"
    /\ ThreadFree
    /\ invocations' = Append(invocations, Invocation(n, remoteUsers, chatMessages))
    /\ UNCHANGED <<remoteUsers, wsStatus, peer, joinPc, joinResp, pulls,
                   lastAlert, joinCalls, transports, joinRequests, delivered,
                   sendPcWarp, pubs, openCalls, captureRequests, pushRequests,
                   removed, lastNotif, chatMessages, sends, heartbeat, recvSession, wsWrap, iceSession, devices>>

\* Call i of onNotification runs its next statement.
onNotificationStep(i) ==
    LET h == invocations[i]
        n == h.notif
    IN /\ ~h.done
       /\ \A j \in 1..Len(invocations) : j # i => ~HoldsThread(invocations[j])
       /\ CASE n.method = "newUser" ->
                 LET r == NewUserLoop(remoteUsers, pulls, <<n.users[h.pos]>>)
                 IN /\ remoteUsers' = r[1]
                    /\ pulls' = r[2]
                    /\ delivered' = delivered + 1
                    /\ UNCHANGED <<removed, lastNotif, chatMessages>>
            [] n.method = "newPusher" ->
                 LET r == NewPusherMerge(remoteUsers, pulls, n.users[1])
                 IN /\ remoteUsers' = r[1]
                    /\ pulls' = r[2]
                    /\ delivered' = delivered + 1
                    /\ UNCHANGED <<removed, lastNotif, chatMessages>>
            [] n.method = "userLeave" ->
                 LET after == Leave(remoteUsers, pulls, removed, n.userId)
                 IN /\ remoteUsers' = after.table
                    /\ pulls' = after.pulls
                    /\ removed' = after.removed
                    /\ lastNotif' = Notification(n.method, n.userId)
                    /\ UNCHANGED <<delivered, chatMessages>>
            [] n.method = "userDisconnect" ->
                 /\ remoteUsers' = WithState(remoteUsers, n.userId, "disconnected")
                 /\ lastNotif' = Notification(n.method, n.userId)
                 /\ UNCHANGED <<pulls, delivered, removed, chatMessages>>
            [] n.method = "userReconnect" ->
                 /\ remoteUsers' = WithState(remoteUsers, n.userId, "connected")
                 /\ lastNotif' = Notification(n.method, n.userId)
                 /\ UNCHANGED <<pulls, delivered, removed, chatMessages>>
            [] n.method = "textMessage" ->
                 /\ chatMessages' = IF n.message.isString
                                    THEN Append(chatMessages, ChatEntry(n))
                                    ELSE chatMessages
                 /\ UNCHANGED <<remoteUsers, pulls, delivered, removed, lastNotif>>
       /\ invocations' =
             [invocations EXCEPT
                 ![i] = [h EXCEPT !.pos = h.pos + 1,
                                  !.done = h.pos + 1 > StepsOf(n),
                                  !.after = [table |-> remoteUsers',
                                             chat |-> chatMessages']]]
       /\ UNCHANGED <<wsStatus, peer, joinPc, joinResp, lastAlert, joinCalls,
                      transports, joinRequests, sendPcWarp, pubs, openCalls,
                      captureRequests, pushRequests, sends, heartbeat, recvSession, wsWrap, iceSession, devices>>

\* ---------------------------------------------------- App.vue: sendMessage
\* The local participant's id and name (App.vue userId, userName).
LocalUserId == <<"4", "2">>
LocalUserName == Str(<<"User_42">>)

\* One invocation of sendMessage: result is "rejected" (the call threw or
\* its promise rejected) or "resolved"; notified tells that peer.notify()
\* was called for it, and sent that the transport had a socket to write the
\* notification to.
SendCall(message, result, notified, sent) ==
    [message |-> message, result |-> result, notified |-> notified, sent |-> sent]

\* sendMessage throws 'Not joined' unless the status is 'joined'.
SendAllowed(status) == status = "joined"

\* The transport writes a notification only to an open socket; peer.notify()
\* returns nothing to its caller either way.
TransportWrites(p) == p = "open"

\* The chat log after sendNotify() settled: its then() callback pushes the
\* self entry (time stamp left out), its catch() callback rethrows.
SelfEntries(chat, message, accepted) ==
    IF accepted
    THEN Append(chat, [userId |-> LocalUserId, userName |-> LocalUserName,
                       message |-> message, self |-> TRUE])
    ELSE chat

\* sendMessage(message), with the callbacks of the promise sendNotify()
\* returns: sendNotify() has no await, so the promise is settled when it
\* returns and the callbacks run before any other task.
sendMessage(message) ==
    /\ IF ~SendAllowed(wsStatus)
       THEN /\ lastAlert' = "Please join a room first."
            /\ sends' = Append(sends, SendCall(message, "rejected", FALSE, FALSE))
            /\ UNCHANGED chatMessages
       ELSE LET accepted == SendAccepted(peer)
            IN /\ sends' = Append(sends,
                      SendCall(message,
                               IF accepted THEN "resolved" ELSE "rejected",
                               accepted,
                               accepted /\ TransportWrites(peer)))
               /\ chatMessages' = SelfEntries(chatMessages, message, accepted)
               /\ UNCHANGED lastAlert
    /\ UNCHANGED <<remoteUsers, wsStatus, peer, joinPc, joinResp, pulls,
                   joinCalls, transports, joinRequests, delivered, sendPcWarp,
                   pubs, openCalls, captureRequests, pushRequests, removed,
                   lastNotif, invocations, heartbeat, recvSession, wsWrap, iceSession, devices>>

\* ------------------------------------------------ App.vue: heartbeat timer
\* Everything the heartbeat timer and its callbacks leave alone.
HeartbeatFrame ==
    <<remoteUsers, wsStatus, peer, joinPc, joinResp, pulls, lastAlert,
      joinCalls, transports, joinRequests, delivered, sendPcWarp, pubs,
      openCalls, captureRequests, pushRequests, removed, lastNotif,
      invocations, chatMessages, sends, recvSession, wsWrap, iceSession, devices>>

\* A variant of HeartbeatDue for a timer that does not look at the status.
HeartbeatDueAlways(status) == TRUE

\* The timer callback sends a heartbeat when the status is 'connected' or
\* 'joined'.
HeartbeatDue(status) == status \in {"connected", "joined"}

\* A tick of the 3-second timer that finds a heartbeat due: sendRequest()
\* hands the request to the peer, or throws when there is no peer or it is
\* closed, which the catch() callback logs.
HeartbeatTick ==
    /\ HeartbeatDue(wsStatus)
    /\ heartbeat' = IF SendAccepted(peer)
                    THEN [heartbeat EXCEPT !.issued = @ + 1, !.pending = @ + 1]
                    ELSE [heartbeat EXCEPT !.failed = @ + 1]
    /\ UNCHANGED HeartbeatFrame

\* The response to a heartbeat arrives: the then() callback logs it.
HeartbeatAnswered ==
    /\ heartbeat.pending > 0
    /\ peer = "open"
    /\ heartbeat' = [heartbeat EXCEPT !.pending = @ - 1]
    /\ UNCHANGED HeartbeatFrame

\* A heartbeat request rejects (error response, timeout, peer closed): the
\* catch() callback logs it.
HeartbeatFailed ==
    /\ heartbeat.pending > 0
    /\ heartbeat' = [heartbeat EXCEPT !.pending = @ - 1, !.failed = @ + 1]
    /\ UNCHANGED HeartbeatFrame

\* ------------------------------------------------- App.vue: mute controls
\* !flag of a flag that is true, false or undefined.
Negated(flag) == IF flag = "true" THEN "false" ELSE "true"

\* A variant of setTrackEnabledForUser that leaves the tracks alone.
setTrackEnabledForUserNoWalk(user, kind, enabled) == user

\* setTrackEnabledForUser(user, kind, enabled): every track of that kind in
\* playStream gets t.enabled = enabled.
setTrackEnabledForUser(user, kind, enabled) ==
    [user EXCEPT !.receivePcWrap.transceivers =
        [t \in 1..Len(@) |->
            IF user.playStream.present /\ t \in user.playStream.tracks
                  /\ @[t].kind = kind
            THEN [@[t] EXCEPT !.enabled = enabled]
            ELSE @[t]]]

\* The Mute Audio / Unmute Audio button of participant i.
toggleAudioMute(i) ==
    /\ LET flipped == [remoteUsers[i] EXCEPT !.audioMuted = Negated(@)]
       IN remoteUsers' = [remoteUsers EXCEPT ![i] =
              setTrackEnabledForUser(flipped, "audio", flipped.audioMuted # "true")]
    /\ UNCHANGED pulls
    /\ UNCHANGED PullVars

\* The Mute Video / Unmute Video button of participant i.
toggleVideoMute(i) ==
    /\ LET flipped == [remoteUsers[i] EXCEPT !.videoMuted = Negated(@)]
       IN remoteUsers' = [remoteUsers EXCEPT ![i] =
              setTrackEnabledForUser(flipped, "video", flipped.videoMuted # "true")]
    /\ UNCHANGED pulls
    /\ UNCHANGED PullVars

\* pullRemoteUser(roomId, target, specs) as an operation of its own, called
\* with any target id and spec list.
Subscribe(target, specs) ==
    /\ Cardinality({k \in 1..Len(pulls) : pulls[k].origin = "direct"}) < MaxSubscribes
    /\ pulls' = StartPull(remoteUsers, pulls, target, specs, "direct", {}, {})
    /\ UNCHANGED remoteUsers
    /\ UNCHANGED PullVars

\* ----------------------------- PCWrap.ts: a receive-only session on its own
\* Everything the calls on that session leave alone.
RecvSessionFrame ==
    <<remoteUsers, wsStatus, peer, joinPc, joinResp, pulls, lastAlert,
      joinCalls, transports, joinRequests, delivered, sendPcWarp, pubs,
      openCalls, captureRequests, pushRequests, removed, lastNotif,
      invocations, chatMessages, sends, heartbeat, wsWrap, iceSession, devices>>

\* One call of createOfferAndEmit(): the transceivers the connection had
\* when it was called, how the call ended ("throws" at the check, "offer"
\* when it returned the local description, "rejected" when createOffer()
\* or setLocalDescription() rejected) and the transceivers the offer
\* describes.
OfferCall(slots, result, offer) ==
    [slots |-> slots, result |-> result, offer |-> offer]

\* createOfferAndEmit() on a recvonly PCWrap: this.pc ?? initPeerConnection(),
\* the check of the transceivers, then createOffer() and
\* setLocalDescription(), which resolve (created) or reject.
createOfferAndEmit(w, created) ==
    LET slots == Len(w.transceivers)
    IN IF NoTransceivers(w) THEN OfferCall(slots, "throws", {})
       ELSE IF created THEN OfferCall(slots, "offer", 1..slots)
       ELSE OfferCall(slots, "rejected", {})

\* addTransceivers(specs) is called on the session.
SessionAddTransceivers(specs) ==
    /\ recvSession' = [recvSession EXCEPT !.w = addTransceivers(@, specs)]
    /\ UNCHANGED RecvSessionFrame

\* close() is called on the session: the connection is closed and dropped;
\* recvMap is left as it is. The next call creates a new connection.
SessionClose ==
    /\ recvSession.w.pcOpen
    /\ recvSession' = [recvSession EXCEPT !.w = PCWrapClose(@)]
    /\ UNCHANGED RecvSessionFrame

\* createOfferAndEmit() is called on the session and settles.
SessionCreateOffer(created) ==
    /\ Len(recvSession.offers) < MaxOfferCalls
    /\ recvSession' =
          [recvSession EXCEPT
             !.w = [@ EXCEPT !.pcOpen = TRUE],
             !.offers = Append(@, createOfferAndEmit(recvSession.w, created))]
    /\ UNCHANGED RecvSessionFrame

\* ------------------------- ProtooClientWrap.ts: the wrapper used on its own
\* The state of App.vue, which the objects used on their own never touch.
AppFrame ==
    <<remoteUsers, wsStatus, peer, joinPc, joinResp, pulls, lastAlert,
      joinCalls, transports, joinRequests, delivered, sendPcWarp, pubs,
      openCalls, captureRequests, pushRequests, removed, lastNotif,
      invocations, chatMessages, sends, heartbeat>>

\* Everything the calls on the wrapper leave alone.
WrapFrame == <<AppFrame, recvSession, iceSession, devices>>

\* The urls connect() is called with.
Urls == {"ws://a", "ws://b"}

WrapCall(op, arg, result) == [op |-> op, arg |-> arg, result |-> result]

Returned(w, op, arg, result) ==
    [w EXCEPT !.calls = Append(@, WrapCall(op, arg, result))]

\* if (this.peer) throw new Error('Already connected. Call close() first.')
ConnectRefused(p) == ~ConnectAccepted(p)

\* connect(url): throws while a peer is held; otherwise stores the url,
\* creates the transport and the peer and registers the handlers on it.
Connected(w, url) ==
    IF ConnectRefused(w.peer)
    THEN Returned(w, "connect", url, "Already connected")
    ELSE Returned([w EXCEPT !.peer = "connecting",
                            !.url = url,
                            !.made = Append(@, url),
                            !.listeners = Len(w.made) + 1],
                  "connect", url, "connecting")

\* close(): closes and drops the peer, if any, and forgets the url.
Closed(w) == [w EXCEPT !.peer = "null", !.url = NoUrl, !.listeners = 0]

\* reconnect(): throws without a url; otherwise this.close(), then
\* this.connect(this.url) with the url as close() has left it.
Reconnected(w) ==
    IF w.url = NoUrl
    THEN Returned(w, "reconnect", NoUrl, "No URL to reconnect to")
    ELSE Connected(Closed(w), Closed(w).url)

\* A variant of Sent that hands the message over whatever the peer is.
SentUnchecked(w, op, method) ==
    Returned([w EXCEPT !.handed = Append(@, [op |-> op, method |-> method,
                                             to |-> w.listeners])],
             op, method, "handed")

\* sendRequest(method) / sendNotify(method): throw without a peer or with a
\* closed one; otherwise peer.request() / peer.notify() is called once.
Sent(w, op, method) ==
    IF w.peer = "null" THEN Returned(w, op, method, "Not connected")
    ELSE IF ~SendAccepted(w.peer) THEN Returned(w, op, method, "Peer is closed")
    ELSE Returned([w EXCEPT !.handed = Append(@, [op |-> op, method |-> method,
                                                   to |-> w.listeners])],
                  op, method, "handed")

connect(url) ==
    /\ Len(wsWrap.calls) < MaxWrapCalls
    /\ wsWrap' = Connected(wsWrap, url)
    /\ UNCHANGED WrapFrame

close ==
    /\ Len(wsWrap.calls) < MaxWrapCalls
    /\ wsWrap' = Returned(Closed(wsWrap), "close", NoUrl, "returned")
    /\ UNCHANGED WrapFrame

reconnect ==
    /\ Len(wsWrap.calls) < MaxWrapCalls
    /\ wsWrap' = Reconnected(wsWrap)
    /\ UNCHANGED WrapFrame

sendRequest(method) ==
    /\ Len(wsWrap.calls) < MaxWrapCalls
    /\ wsWrap' = Sent(wsWrap, "request", method)
    /\ UNCHANGED WrapFrame

sendNotify(method) ==
    /\ Len(wsWrap.calls) < MaxWrapCalls
    /\ wsWrap' = Sent(wsWrap, "notify", method)
    /\ UNCHANGED WrapFrame

\* The 'open' event of the wrapper's peer.
WrapPeerOpen ==
    /\ wsWrap.peer = "connecting"
    /\ wsWrap' = [wsWrap EXCEPT !.peer = "open"]
    /\ UNCHANGED WrapFrame

\* The 'close' event of the wrapper's peer: peer.closed is true from now
\* on, and this.peer still refers to it.
WrapPeerClose ==
    /\ wsWrap.peer \in {"connecting", "open"}
    /\ wsWrap' = [wsWrap EXCEPT !.peer = "closed"]
    /\ UNCHANGED WrapFrame

\* -------------------- PCWrap.ts: createOfferAndEmit through ICE gathering
\* Everything the steps of that session leave alone.
IceFrame == <<AppFrame, recvSession, wsWrap, devices>>

\* if (this.options.trickleIce === false) await waitForIceGatheringComplete(pc)
WaitsForGathering(option) == option = "false"

\* The states on which onConnectionStateChange rejects the wait.
AbortsGathering(state) == state \in {"failed", "closed", "disconnected"}

\* The end of createOfferAndEmit(): onOffer, the 'offer' event, the return.
Emitted(s) ==
    [s EXCEPT !.pc = "returned", !.emitted = @ + 1, !.atEmit = s.gathering]

\* createOfferAndEmit() is called on a PCWrap constructed with the option:
\* createOffer() is pending.
IceCreateOfferAndEmit(option) ==
    /\ iceSession.pc \in {"idle", "returned", "rejected"}
    /\ iceSession.calls < MaxIceCalls
    /\ iceSession.connection # "closed"
    /\ option = iceSession.trickleIce \/ iceSession.calls = 0
    /\ iceSession' = [iceSession EXCEPT !.trickleIce = option, !.pc = "offer",
                                        !.calls = @ + 1]
    /\ UNCHANGED IceFrame

\* createOffer() and setLocalDescription() have resolved. Without the wait
\* the offer is emitted; with it, waitForIceGatheringComplete() resolves at
\* once when gathering is complete and registers its listeners otherwise.
IceDescriptionSet ==
    /\ iceSession.pc = "offer"
    /\ iceSession.connection # "closed"
    /\ iceSession' =
          IF WaitsForGathering(iceSession.trickleIce)
                /\ iceSession.gathering # "complete"
          THEN [iceSession EXCEPT !.pc = "waiting"]
          ELSE Emitted(iceSession)
    /\ UNCHANGED IceFrame

\* createOffer() or setLocalDescription() rejects.
IceOfferFails ==
    /\ iceSession.pc = "offer"
    /\ iceSession' = [iceSession EXCEPT !.pc = "rejected"]
    /\ UNCHANGED IceFrame

\* 'icegatheringstatechange': onStateChange resolves the wait on
\* 'complete', and the call goes on to emit the offer.
IceGatheringChange ==
    /\ iceSession.pc \notin {"idle", "offer"}
    /\ iceSession.connection # "closed"
    /\ iceSession.gathering # "complete"
    /\ LET next == IF iceSession.gathering = "new" THEN "gathering" ELSE "complete"
           s == [iceSession EXCEPT !.gathering = next]
       IN iceSession' = IF s.pc = "waiting" /\ next = "complete"
                        THEN Emitted(s) ELSE s
    /\ UNCHANGED IceFrame

\* 'connectionstatechange': onConnectionStateChange rejects the wait on
\* 'failed', 'closed' and 'disconnected'.
IceConnectionChange(state) ==
    /\ iceSession.pc \notin {"idle", "offer"}
    /\ iceSession.connection \notin {"closed", state}
    /\ iceSession' = [iceSession EXCEPT
                         !.connection = state,
                         !.pc = IF @ = "waiting" /\ AbortsGathering(state)
                                THEN "rejected" ELSE @]
    /\ UNCHANGED IceFrame

\* close(): pc.close() makes the connection state 'closed'. Whether the
\* browser fires 'connectionstatechange' for it differs between browsers
\* (the WebRTC specification fires no event); without the event no
\* listener of the wait runs.
IceClose(fires) ==
    /\ iceSession.pc # "idle"
    /\ iceSession.connection # "closed"
    /\ iceSession' = [iceSession EXCEPT
                         !.connection = "closed",
                         !.pc = IF @ = "waiting" /\ fires /\ AbortsGathering("closed")
                                THEN "rejected"
                                ELSE IF @ = "offer" THEN "rejected" ELSE @]
    /\ UNCHANGED IceFrame

\* ------------------------------ Device / PCWrap: openDevices used on its own
\* Everything the calls on that object leave alone.
DeviceFrame == <<AppFrame, recvSession, wsWrap, iceSession>>

\* openDevices(): returns the retained stream when there is one; otherwise
\* getUserMedia() is called and awaited.
openDevices ==
    /\ devices.calls < MaxDeviceCalls
    /\ devices' = IF devices.stream # 0
                  THEN [devices EXCEPT !.calls = @ + 1,
                                       !.returned = Append(@, devices.stream)]
                  ELSE [devices EXCEPT !.calls = @ + 1, !.pending = @ + 1]
    /\ UNCHANGED DeviceFrame

\* getUserMedia() of a pending call resolves with a new stream: the call
\* stores it and returns it.
DeviceCaptureGranted ==
    /\ devices.pending > 0
    /\ LET stream == devices.acquired + 1
       IN devices' = [devices EXCEPT !.pending = @ - 1,
                                     !.acquired = stream,
                                     !.stream = stream,
                                     !.returned = Append(@, stream)]
    /\ UNCHANGED DeviceFrame

\* getUserMedia() of a pending call rejects: the error is reported and
\* thrown.
DeviceCaptureDenied ==
    /\ devices.pending > 0
    /\ devices' = [devices EXCEPT !.pending = @ - 1, !.returned = Append(@, 0)]
    /\ UNCHANGED DeviceFrame

\* close(): stops the tracks of the retained stream and forgets it.
DeviceClose ==
    /\ devices.stream # 0
    /\ devices' = [devices EXCEPT !.stopped = @ \cup {devices.stream},
                                  !.stream = 0]
    /\ UNCHANGED DeviceFrame

\* -------------------------------------------------- App.vue: onOpenDevices
\* Everything onOpenDevices leaves alone.
PubFrame == <<remoteUsers, wsStatus, peer, joinPc, joinResp, pulls, joinCalls,
              transports, joinRequests, delivered, removed, lastNotif,
              invocations, chatMessages, sends, heartbeat, recvSession, wsWrap, iceSession, devices>>

\* A variant of the guard that lets a connected, not yet joined client pass.
OpenDevicesAllowedConnected(status) == status # "disconnected"

\* The guard of onOpenDevices: wsStatus.value === 'joined'.
OpenDevicesAllowed(status) == status = "joined"

\* A variant of openDevices() that never reuses the stream it holds.
OpenDevicesReusesNever(w) == FALSE

\* PCWrap.openDevices: if (this.localStream) return this.localStream
OpenDevicesReuses(w) == w.localStream # 0

\* One invocation of onOpenDevices that passed its guard. created tells
\* whether the call constructed the Local Publish Session, and medias is the
\* stream openDevices() returned to it, 0 while there is none (both kept for
\* the claims); pc is the call's position:
\*   "capture"  awaiting getUserMedia()
\*   "preview"  stream obtained, awaiting the preview element's play()
\*   "offer"    awaiting createOfferAndEmit()
\*   "push"     awaiting the response to the 'push' request
\*   "done"     returned after setRemoteDescription()
\*   "failed"   returned after an alert
\* code is the code of the 'push' response, -1 while there is none, and
\* answer what became of the answer the call handed to
\* setRemoteDescription(): "none" (not handed over yet), "applied" or
\* "failed".
PubCall(pc, created, medias) ==
    [pc |-> pc, created |-> created, medias |-> medias, code |-> -1,
     answer |-> "none"]

\* The Open Devices button. Not joined: alert and return. Otherwise the
\* Local Publish Session is created when there is none and openDevices() is
\* called: it returns the stream it already holds, or asks for the capture
\* devices.
onOpenDevices ==
    /\ openCalls < MaxOpenCalls
    /\ openCalls' = openCalls + 1
    /\ IF ~OpenDevicesAllowed(wsStatus)
       THEN /\ lastAlert' = "Please join a room first."
            /\ UNCHANGED <<sendPcWarp, pubs, captureRequests>>
       ELSE /\ sendPcWarp' = [sendPcWarp EXCEPT !.present = TRUE]
            /\ IF OpenDevicesReuses(sendPcWarp)
               THEN /\ pubs' = Append(pubs, PubCall("preview", ~sendPcWarp.present,
                                                    sendPcWarp.localStream))
                    /\ UNCHANGED captureRequests
               ELSE /\ pubs' = Append(pubs, PubCall("capture", ~sendPcWarp.present, 0))
                    /\ captureRequests' = captureRequests + 1
            /\ UNCHANGED lastAlert
    /\ UNCHANGED pushRequests
    /\ UNCHANGED PubFrame

\* getUserMedia() of call k resolves with a new stream (named by k + 1, 0
\* being "no stream"): PCWrap.openDevices stores and returns it.
CaptureGranted(k) ==
    /\ pubs[k].pc = "capture"
    /\ sendPcWarp' = [sendPcWarp EXCEPT !.localStream = k + 1]
    /\ pubs' = [pubs EXCEPT ![k].pc = "preview", ![k].medias = k + 1]
    /\ UNCHANGED <<lastAlert, openCalls, captureRequests, pushRequests>>
    /\ UNCHANGED PubFrame

\* getUserMedia() of call k rejects: alert, return.
CaptureDenied(k) ==
    /\ pubs[k].pc = "capture"
    /\ pubs' = [pubs EXCEPT ![k].pc = "failed"]
    /\ lastAlert' = "Set constraints failed"
    /\ UNCHANGED <<sendPcWarp, openCalls, captureRequests, pushRequests>>
    /\ UNCHANGED PubFrame

\* play() of the preview settles; createOfferAndEmit() starts: the peer
\* connection is initialised, the local tracks are attached when no sender
\* carries them yet, and pc.createOffer() is pending.
PreviewSettled(k) ==
    /\ pubs[k].pc = "preview"
    /\ sendPcWarp' = [sendPcWarp EXCEPT
                        !.pcOpen = TRUE,
                        !.senders = IF @ = 0 THEN sendPcWarp.localStream ELSE @]
    /\ pubs' = [pubs EXCEPT ![k].pc = "offer"]
    /\ UNCHANGED <<lastAlert, openCalls, captureRequests, pushRequests>>
    /\ UNCHANGED PubFrame

\* createOfferAndEmit() of call k resolves and the 'push' request is sent;
\* sendRequest throws when there is no usable peer.
PubOfferCreated(k) ==
    /\ pubs[k].pc = "offer"
    /\ IF SendAccepted(peer)
       THEN /\ pubs' = [pubs EXCEPT ![k].pc = "push"]
            /\ pushRequests' = pushRequests + 1
            /\ UNCHANGED lastAlert
       ELSE /\ pubs' = [pubs EXCEPT ![k].pc = "failed"]
            /\ lastAlert' = "Create peer connection failed"
            /\ UNCHANGED pushRequests
    /\ UNCHANGED <<sendPcWarp, openCalls, captureRequests>>
    /\ UNCHANGED PubFrame

\* createOfferAndEmit() of call k, or its 'push' request, rejects.
PubRejected(k) ==
    /\ pubs[k].pc \in {"offer", "push"}
    /\ pubs' = [pubs EXCEPT ![k].pc = "failed"]
    /\ lastAlert' = "Create peer connection failed"
    /\ UNCHANGED <<sendPcWarp, openCalls, captureRequests, pushRequests>>
    /\ UNCHANGED PubFrame

\* The response to the 'push' request of call k arrives: a non-zero code
\* alerts and returns, otherwise the answer is set on the connection.
PushResponse(k, code) ==
    /\ pubs[k].pc = "push"
    /\ peer = "open"
    /\ IF code # 0
       THEN /\ pubs' = [pubs EXCEPT ![k].pc = "failed", ![k].code = code]
            /\ lastAlert' = "Push failed"
            /\ UNCHANGED sendPcWarp
       ELSE /\ pubs' = [pubs EXCEPT ![k].pc = "done", ![k].code = code,
                                     ![k].answer = "applied"]
            /\ sendPcWarp' = [sendPcWarp EXCEPT !.remoteSet = TRUE]
            /\ UNCHANGED lastAlert
    /\ UNCHANGED <<openCalls, captureRequests, pushRequests>>
    /\ UNCHANGED PubFrame

\* The response to the 'push' request of call k arrives with code 0 and
\* the connection refuses its answer: PCWrap.setRemoteDescription has
\* returned normally (it neither awaits nor returns the promise of
\* pc.setRemoteDescription()), so onOpenDevices returns without an alert.
PushAnswerFails(k) ==
    /\ pubs[k].pc = "push"
    /\ peer = "open"
    /\ pubs' = [pubs EXCEPT ![k].pc = "done", ![k].code = 0,
                            ![k].answer = "failed"]
    /\ UNCHANGED <<sendPcWarp, lastAlert, openCalls, captureRequests, pushRequests>>
    /\ UNCHANGED PubFrame

\* ------------------------------------------------------- server payloads
P1v == [pusherId |-> "p1", av_type |-> "video"]
P1a == [pusherId |-> "p1", av_type |-> "audio"]
P2a == [pusherId |-> "p2", av_type |-> "audio"]

Arr(items) == [isArray |-> TRUE, items |-> items]
NotArray == [isArray |-> FALSE, items |-> <<>>]

\* Sequences over S of length lo..hi.
SeqsOf(S, lo, hi) == UNION {[1..m -> S] : m \in lo..hi}

\* Raw ids: the number 7, "7", " 7 ", "e" + combining acute, and the
\* precomposed e-acute: two identities under normalizeId.
RawIds ==
    {Num(7), Str(<<"7">>), Str(<<" ", "7", " ">>),
     Str(<<"e", "U+0301">>), Str(<<"U+00E9">>)}

\* Participant payloads of the membership specification: every raw id, with
\* a pushers list that may repeat a publication id (with the same or
\* another media kind) or be absent.
RichUsers ==
    [userId : RawIds,
     userName : {"A"},
     pushers : {Arr(<<>>), Arr(<<P1v>>), Arr(<<P1a>>), Arr(<<P2a>>),
                Arr(<<P1v, P2a>>), Arr(<<P2a, P2a>>), Arr(<<P1v, P1a>>),
                NotArray}]

\* Participant payloads of the negotiation specification.
User(rawId, pushers) == [userId |-> rawId, userName |-> "A", pushers |-> pushers]

SmallUsers ==
    {User(Str(<<"7">>), Arr(<<P1v>>)),
     User(Str(<<"7">>), Arr(<<P2a>>)),
     User(Str(<<"8">>), Arr(<<>>)),
     User(Str(<<"8">>), Arr(<<P2a>>))}

Responses(Users, budget) ==
    [code : {0, 1}, users : {Arr(us) : us \in SeqsOf(Users, 0, budget)}]

\* ------------------------------------------------------- specifications
\* The membership table under join responses and newUser / newPusher
\* notifications with rich payloads. Calls of pullRemoteUser are started by
\* the handlers and left pending: nothing they do later writes a
\* participant's id, name, publication list or receive slots.
TableJoinResponse ==
    \E resp \in Responses(RichUsers, MaxUpserts - delivered) : JoinResponse(resp)

TableNewUser ==
    \E us \in SeqsOf(RichUsers, 1, MaxUpserts - delivered) : NewUser(us)

TableNewPusher ==
    /\ delivered < MaxUpserts
    /\ \E u \in RichUsers : NewPusher(u)

NextTable ==
    \/ onJoin
    \/ PeerOpen
    \/ TableJoinResponse
    \/ TableNewUser
    \/ TableNewPusher

SpecTable == Init /\ [][NextTable]_vars


\* Join, notifications, subscribe calls and track delivery.
RecvJoinResponse ==
    \E resp \in Responses(SmallUsers, MaxDeliveries - delivered) : JoinResponse(resp)

RecvNewUser ==
    \E us \in SeqsOf(SmallUsers, 1, MaxDeliveries - delivered) : NewUser(us)

RecvNewPusher ==
    /\ delivered < MaxDeliveries
    /\ \E u \in SmallUsers : NewPusher(u)

OfferCreated == \E k \in 1..Len(pulls) : PullOfferCreated(k)

OfferFailed == \E k \in 1..Len(pulls) : PullOfferFailed(k)

RecvPullResponse == \E k \in 1..Len(pulls), code \in {0, 1} : PullResponse(k, code)

PullRejected == \E k \in 1..Len(pulls) : PullRequestRejected(k)

RecvTracks == \E i \in 1..Len(remoteUsers) : TracksArrive(i)

\* The first press of the Join button.
FirstJoin == joinCalls = 0 /\ onJoin

Next ==
    \/ FirstJoin
    \/ PeerOpen
    \/ PeerClose
    \/ RecvJoinResponse
    \/ RecvNewUser
    \/ RecvNewPusher
    \/ OfferCreated
    \/ OfferFailed
    \/ RecvPullResponse
    \/ PullRejected
    \/ RecvTracks

Spec == Init /\ [][Next]_vars

\* pullRemoteUser on its own: a join response fills the table, then the
\* operation is called with targets that are in the table with a session
\* ("7"), in the table without one ("8"), or not in it ("9").
SubUsers == {User(Str(<<"7">>), Arr(<<P1v>>)), User(Str(<<"8">>), Arr(<<>>))}

SubJoinResponse ==
    \E resp \in Responses(SubUsers, MaxDeliveries - delivered) : JoinResponse(resp)

SubTargets == {<<"7">>, <<"8">>, <<"9">>}

SubSpecs == {<<>>, SpecsOf(<<P1v>>)}

SubSubscribe == \E target \in SubTargets, specs \in SubSpecs : Subscribe(target, specs)

NextSubscribe ==
    \/ FirstJoin
    \/ PeerOpen
    \/ SubJoinResponse
    \/ SubSubscribe
    \/ OfferCreated
    \/ OfferFailed
    \/ RecvPullResponse
    \/ PullRejected
    \/ RecvTracks

SpecSubscribe == Init /\ [][NextSubscribe]_vars

\* Receive slots and offers: a join response and notifications whose ids
\* come as strings and as numbers, the offers of the subscribe calls they
\* start, and a receive-only session used on its own, on which
\* createOfferAndEmit is called before and after addTransceivers.
SlotUsers ==
    [userId : {Str(<<"7">>), Num(7)},
     userName : {"A"},
     pushers : {Arr(<<>>), Arr(<<P1v>>), Arr(<<P2a, P2a>>)}]

SlotJoinResponse ==
    \E resp \in Responses(SlotUsers, MaxUpserts - delivered) : JoinResponse(resp)

SlotNewUser ==
    \E us \in SeqsOf(SlotUsers, 1, MaxUpserts - delivered) : NewUser(us)

SlotNewPusher ==
    /\ delivered < MaxUpserts
    /\ \E u \in SlotUsers : NewPusher(u)

SlotSpecs == {<<>>, SpecsOf(<<P1v>>), SpecsOf(<<P1v, P2a>>)}

AddTransceivers == \E specs \in SlotSpecs : SessionAddTransceivers(specs)

CreateOffer == \E created \in BOOLEAN : SessionCreateOffer(created)

NextSlots ==
    \/ FirstJoin
    \/ PeerOpen
    \/ SlotJoinResponse
    \/ SlotNewUser
    \/ SlotNewPusher
    \/ OfferCreated
    \/ AddTransceivers
    \/ CreateOffer

SpecSlots == Init /\ [][NextSlots]_vars

\* The ProtooClientWrap used on its own: connect, close, reconnect,
\* sendRequest and sendNotify in any order, with the peer opening and
\* closing in between.
WrapConnect == \E url \in Urls : connect(url)

WrapSendRequest == sendRequest("join")

WrapSendNotify == sendNotify("textMessage")

NextWrap ==
    \/ WrapConnect
    \/ close
    \/ reconnect
    \/ WrapSendRequest
    \/ WrapSendNotify
    \/ WrapPeerOpen
    \/ WrapPeerClose

SpecWrap == Init /\ [][NextWrap]_vars

\* createOfferAndEmit with and without trickle ICE, against the gathering
\* and connection state changes of the RTCPeerConnection and close().
TrickleOptions == {"undefined", "true", "false"}

IceCall == \E option \in TrickleOptions : IceCreateOfferAndEmit(option)

IceConnection ==
    \E state \in {"connecting", "connected", "disconnected", "failed"} :
        IceConnectionChange(state)

IceClosed == \E fires \in BOOLEAN : IceClose(fires)

NextIce ==
    \/ IceCall
    \/ IceDescriptionSet
    \/ IceOfferFails
    \/ IceGatheringChange
    \/ IceConnection
    \/ IceClosed

SpecIce == Init /\ [][NextIce]_vars

\* openDevices called any number of times before and after getUserMedia
\* settles, and close().
NextDevices ==
    \/ openDevices
    \/ DeviceCaptureGranted
    \/ DeviceCaptureDenied
    \/ DeviceClose

SpecDevices == Init /\ [][NextDevices]_vars

\* The receive-only session used on its own, with close(): addTransceivers,
\* createOfferAndEmit and close() in any order.
NextRecvSession ==
    \/ AddTransceivers
    \/ CreateOffer
    \/ SessionClose

SpecRecvSession == Init /\ [][NextRecvSession]_vars

\* Mute controls against subscribe calls: a join response and newPusher
\* notifications for one participant (first listed with no publication, or
\* with video; then extended), the calls' offers, answers and tracks, and
\* the two mute buttons.
MuteUsers ==
    {User(Str(<<"7">>), Arr(<<>>)),
     User(Str(<<"7">>), Arr(<<P1v>>)),
     User(Str(<<"7">>), Arr(<<P2a>>))}

MuteJoinResponse ==
    \E resp \in Responses(MuteUsers, MaxDeliveries - delivered) : JoinResponse(resp)

MuteNewPusher ==
    /\ delivered < MaxDeliveries
    /\ \E u \in MuteUsers : NewPusher(u)

ToggleAudio == \E i \in 1..Len(remoteUsers) : toggleAudioMute(i)

ToggleVideo == \E i \in 1..Len(remoteUsers) : toggleVideoMute(i)

NextMute ==
    \/ FirstJoin
    \/ PeerOpen
    \/ MuteJoinResponse
    \/ MuteNewPusher
    \/ OfferCreated
    \/ RecvPullResponse
    \/ RecvTracks
    \/ ToggleAudio
    \/ ToggleVideo

SpecMute == Init /\ [][NextMute]_vars

\* The name of a participant under repeated upserts: payloads that name
\* "7" (as a string or as the number 7) or "8", with the userName "A", "B"
\* or none, in join responses and newUser / newPusher notifications.
NameUsers ==
    [userId : {Str(<<"7">>), Num(7), Str(<<"8">>)},
     userName : {"A", "B", Undefined},
     pushers : {Arr(<<>>)}]

NamesJoinResponse ==
    \E resp \in Responses(NameUsers, IF delivered < MaxNamings THEN 1 ELSE 0) :
        JoinResponse(resp)

NamesNewUser ==
    \E us \in SeqsOf(NameUsers, 1, IF MaxNamings - delivered > 2 THEN 2
                                   ELSE MaxNamings - delivered) : NewUser(us)

NamesNewPusher ==
    /\ delivered < MaxNamings
    /\ \E u \in NameUsers : NewPusher(u)

NextNames ==
    \/ FirstJoin
    \/ PeerOpen
    \/ NamesJoinResponse
    \/ NamesNewUser
    \/ NamesNewPusher

SpecNames == Init /\ [][NextNames]_vars

\* Leaving, disconnecting and reconnecting participants against subscribe
\* calls in flight: a join response, the calls' steps, the <video> ref
\* callback, and notifications that name "7" as the stored string, as the
\* number 7, or name "9", who is not in the room.
LeaveUsers == {User(Str(<<"7">>), Arr(<<P1v>>)), User(Str(<<"8">>), Arr(<<P2a>>))}

LeaveIds == {Str(<<"7">>), Num(7), Str(<<"9">>)}

LeaveJoinResponse ==
    \E resp \in Responses(LeaveUsers, MaxDeliveries - delivered) : JoinResponse(resp)

RenderVideo == \E i \in 1..Len(remoteUsers) : videoRefCallback(i)

RecvUserLeave == \E id \in LeaveIds : userLeave(id)

RecvUserDisconnect == \E id \in LeaveIds : userDisconnect(id)

RecvUserReconnect == \E id \in LeaveIds : userReconnect(id)

NextLeave ==
    \/ FirstJoin
    \/ PeerOpen
    \/ LeaveJoinResponse
    \/ OfferCreated
    \/ OfferFailed
    \/ RecvPullResponse
    \/ PullRejected
    \/ RecvTracks
    \/ RenderVideo
    \/ RecvUserLeave
    \/ RecvUserDisconnect
    \/ RecvUserReconnect

SpecLeave == Init /\ [][NextLeave]_vars

\* The same, with the progress the platform and the server provide: a
\* pending createOffer() settles (on a closed connection it fails), a 'pull'
\* request is answered, and negotiated tracks are delivered.
OfferAborted == \E k \in 1..Len(pulls) : pulls[k].left /\ PullOfferFailed(k)

SpecLeaveLive ==
    /\ SpecLeave
    /\ WF_vars(OfferCreated)
    /\ WF_vars(OfferAborted)
    /\ WF_vars(RecvPullResponse)
    /\ WF_vars(RecvTracks)

\* The notification reducer statement by statement, among the other tasks
\* of the event loop: the join response and the continuations of pending
\* subscribe calls run only while no call of onNotification holds the
\* thread.
ReducerNotifications ==
    {ProtooNotification("newUser",
         <<User(Str(<<"7">>), Arr(<<P1v>>)), User(Num(8), Arr(<<P2a>>))>>,
         Str(<<>>), Undefined, NoText),
     ProtooNotification("newUser", <<>>, Str(<<>>), Undefined, NoText),
     ProtooNotification("newPusher", <<User(Str(<<"7">>), Arr(<<P2a>>))>>,
         Str(<<>>), Undefined, NoText),
     ProtooNotification("userLeave", <<>>, Str(<<"7">>), Undefined, NoText),
     ProtooNotification("userDisconnect", <<>>, Str(<<"7">>), Undefined, NoText),
     ProtooNotification("textMessage", <<>>, Num(7), Undefined, Text("hi"))}

ReducerUsers == {User(Str(<<"7">>), Arr(<<P1v>>))}

ReducerJoinResponse ==
    /\ ThreadFree
    /\ \E resp \in Responses(ReducerUsers, 1) : JoinResponse(resp)

RecvNotification ==
    /\ Len(invocations) < MaxNotifications
    /\ \E n \in ReducerNotifications : onNotification(n)

RunStatement == \E i \in 1..Len(invocations) : onNotificationStep(i)

ReducerOfferCreated == ThreadFree /\ OfferCreated

NextReducer ==
    \/ FirstJoin
    \/ PeerOpen
    \/ ReducerJoinResponse
    \/ RecvNotification
    \/ RunStatement
    \/ ReducerOfferCreated

SpecReducer == Init /\ [][NextReducer]_vars

\* The chat log: incoming 'textMessage' notifications, handled statement
\* by statement, and calls of sendMessage, before and after the join, with
\* the peer open, disconnected or closed.
ChatNotifications ==
    {ProtooNotification("textMessage", <<>>, Num(7), Undefined, Text("hi")),
     ProtooNotification("textMessage", <<>>, Str(<<" ", "8">>), "B", Text("yo")),
     ProtooNotification("textMessage", <<>>, Str(<<"8">>), "B", NoText)}

ChatJoinResponse ==
    /\ ThreadFree
    /\ \E resp \in Responses({}, 0) : JoinResponse(resp)

ChatNotification ==
    /\ Len(invocations) < MaxNotifications
    /\ \E n \in ChatNotifications : onNotification(n)

SendChat ==
    /\ ThreadFree
    /\ Len(sends) < MaxSends
    /\ \E message \in {"hello", "bye"} : sendMessage(message)

ChatDisconnected == ThreadFree /\ PeerDisconnected

ChatClose == ThreadFree /\ PeerClose

NextChat ==
    \/ FirstJoin
    \/ PeerOpen
    \/ ChatJoinResponse
    \/ ChatNotification
    \/ RunStatement
    \/ SendChat
    \/ ChatDisconnected
    \/ ChatClose

SpecChat == Init /\ [][NextChat]_vars

\* The signaling session: the Join button, the peer's events, the join
\* response and notifications. Calls of pullRemoteUser are started by the
\* handlers and left pending: nothing they do later writes the status, the
\* peer, or a participant's publication list.
SessJoinResponse ==
    \E resp \in Responses(SmallUsers, MaxDeliveries - delivered) : JoinResponse(resp)

SessNewUser ==
    \E us \in SeqsOf(SmallUsers, 1, MaxDeliveries - delivered) : NewUser(us)

SessNewPusher ==
    /\ delivered < MaxDeliveries
    /\ \E u \in SmallUsers : NewPusher(u)

NextSession ==
    \/ onJoin
    \/ PeerOpen
    \/ PeerFailed
    \/ PeerClose
    \/ JoinRequestRejected
    \/ SessJoinResponse
    \/ SessNewUser
    \/ SessNewPusher

SpecSession == Init /\ [][NextSession]_vars

\* The publish flow: the Join and Open Devices buttons, the peer's events,
\* a join response that lists no user, capture, offer and push.
PubJoinResponse == \E resp \in Responses(SmallUsers, 0) : JoinResponse(resp)

GrantCapture == \E k \in 1..Len(pubs) : CaptureGranted(k)

DenyCapture == \E k \in 1..Len(pubs) : CaptureDenied(k)

SettlePreview == \E k \in 1..Len(pubs) : PreviewSettled(k)

PubOffer == \E k \in 1..Len(pubs) : PubOfferCreated(k)

PubReject == \E k \in 1..Len(pubs) : PubRejected(k)

RecvPushResponse == \E k \in 1..Len(pubs), code \in {0, 1} : PushResponse(k, code)

NextPublish ==
    \/ FirstJoin
    \/ PeerOpen
    \/ PeerClose
    \/ PubJoinResponse
    \/ onOpenDevices
    \/ GrantCapture
    \/ DenyCapture
    \/ SettlePreview
    \/ PubOffer
    \/ PubReject
    \/ RecvPushResponse

SpecPublish == Init /\ [][NextPublish]_vars

\* Answers the connection refuses: one subscribe call and one publish call
\* whose 'pull' / 'push' response carries code 0 and an answer that
\* pc.setRemoteDescription() applies or rejects.
AnswerUsers == {User(Str(<<"7">>), Arr(<<P1v>>))}

AnswerJoinResponse ==
    \E resp \in Responses(AnswerUsers, 1) : JoinResponse(resp)

RefusePullAnswer == \E k \in 1..Len(pulls) : PullAnswerFails(k)

RefusePushAnswer == \E k \in 1..Len(pubs) : PushAnswerFails(k)

NextAnswer ==
    \/ FirstJoin
    \/ PeerOpen
    \/ AnswerJoinResponse
    \/ OfferCreated
    \/ RecvPullResponse
    \/ RefusePullAnswer
    \/ RecvTracks
    \/ onOpenDevices
    \/ GrantCapture
    \/ SettlePreview
    \/ PubOffer
    \/ RecvPushResponse
    \/ RefusePushAnswer

SpecAnswer == Init /\ [][NextAnswer]_vars

\* The heartbeat timer beside a join, a subscribe call and a publish call
\* in flight.
HeartbeatUsers == {User(Str(<<"7">>), Arr(<<P1v>>))}

HeartbeatJoinResponse ==
    \E resp \in Responses(HeartbeatUsers, 1) : JoinResponse(resp)

TimerTick ==
    /\ heartbeat.issued + heartbeat.failed < MaxHeartbeats
    /\ HeartbeatTick

NextHeartbeat ==
    \/ FirstJoin
    \/ PeerOpen
    \/ PeerClose
    \/ HeartbeatJoinResponse
    \/ JoinRequestRejected
    \/ OfferCreated
    \/ RecvPullResponse
    \/ onOpenDevices
    \/ GrantCapture
    \/ SettlePreview
    \/ PubOffer
    \/ RecvPushResponse
    \/ TimerTick
    \/ HeartbeatAnswered
    \/ HeartbeatFailed

SpecHeartbeat == Init /\ [][NextHeartbeat]_vars

\* The client status against every event: the peer opening, losing its
\* socket, opening again and closing, the join, heartbeats that succeed and
\* fail, and a subscribe and a publish call that succeed and fail.
NextStatus ==
    \/ FirstJoin
    \/ PeerOpen
    \/ PeerDisconnected
    \/ PeerReopen
    \/ PeerClose
    \/ HeartbeatJoinResponse
    \/ JoinRequestRejected
    \/ OfferCreated
    \/ OfferFailed
    \/ RecvPullResponse
    \/ PullRejected
    \/ onOpenDevices
    \/ GrantCapture
    \/ DenyCapture
    \/ SettlePreview
    \/ PubOffer
    \/ PubReject
    \/ RecvPushResponse
    \/ TimerTick
    \/ HeartbeatAnswered
    \/ HeartbeatFailed

SpecStatus == Init /\ [][NextStatus]_vars

\* ================================================================ claims
\* ---------------------------------------------------------------- C1
\* C1: after any sequence of join responses and newUser / newPusher
\* notifications, no two entries of the Room Membership Table have ids that
\* are equal under normalized comparison (String, trim, NFC).
C1_UniqueIdentity ==
    \A i, j \in 1..Len(remoteUsers) :
        i # j => normalizeId(Str(remoteUsers[i].userId))
                    # normalizeId(Str(remoteUsers[j].userId))

\* Two payloads were delivered and the table holds the single entry
\* "U+00E9" (both payloads named it, composed or decomposed).
C1_Witness ==
    /\ delivered = 2
    /\ Len(remoteUsers) = 1
    /\ remoteUsers[1].userId = <<"U+00E9">>

\* ---------------------------------------------------------------- C2
\* C2: no participant's publication list holds the same publication id
\* twice, also when a payload lists an id more than once.
C2_NoDuplicatePublication ==
    \A i \in 1..Len(remoteUsers) :
        \A a, b \in 1..Len(remoteUsers[i].pushers) :
            a # b => remoteUsers[i].pushers[a].pusherId
                        # remoteUsers[i].pushers[b].pusherId

\* ---------------------------------------------------------------- C4
Slot(tr) == [kind |-> tr.kind, forPusher |-> tr.forPusher]

SlotsOf(user) ==
    [t \in 1..Len(user.receivePcWrap.transceivers) |->
        Slot(user.receivePcWrap.transceivers[t])]

\* C4: a step (a join response, a newUser or a newPusher) leaves every
\* publication entry a participant already had as it was, appends no entry
\* for an id the participant already had, keeps the reserved slots, and
\* reserves exactly one further slot per id not seen before.
C4_ReannounceIsNoOp ==
    [][\A i \in 1..Len(remoteUsers) :
          LET old == remoteUsers[i]
              new == remoteUsers'[i]
              seen == PusherIdsOf(old.pushers)
          IN /\ Len(new.pushers) >= Len(old.pushers)
             /\ SubSeq(new.pushers, 1, Len(old.pushers)) = old.pushers
             /\ \A a \in (Len(old.pushers) + 1)..Len(new.pushers) :
                    new.pushers[a].pusherId \notin seen
             /\ Len(SlotsOf(new)) >= Len(SlotsOf(old))
             /\ SubSeq(SlotsOf(new), 1, Len(SlotsOf(old))) = SlotsOf(old)
             /\ \A t \in (Len(SlotsOf(old)) + 1)..Len(SlotsOf(new)) :
                    SlotsOf(new)[t].forPusher \notin seen
             /\ Len(SlotsOf(new)) - Len(SlotsOf(old))
                    = Cardinality(PusherIdsOf(new.pushers) \ seen)
      ]_vars

\* A notification announced a publication id its participant already had
\* (with another media kind), next to a new one: the entry is still the
\* video publication p1, and one slot was added for p2.
C4_Witness ==
    \E k \in 1..Len(pulls) :
        /\ pulls[k].origin = "newPusher"
        /\ pulls[k].announced = {"p1", "p2"}
        /\ pulls[k].added = {"p2"}
        /\ LET i == FindUser(remoteUsers, pulls[k].target)
           IN /\ remoteUsers[i].pushers = <<P1a, P2a>>
              /\ Len(remoteUsers[i].receivePcWrap.transceivers) = 2

\* ---------------------------------------------------------------- C3
SpecIds(specs) == {specs[j].pusher_id : j \in 1..Len(specs)}

\* C3: the pull request a newPusher notification issues lists exactly the
\* publications that notification added; known ones are not requested again.
C3_PullListsOnlyNew ==
    \A k \in 1..Len(pulls) :
        pulls[k].origin = "newPusher" => SpecIds(pulls[k].specs) = pulls[k].added

\* ---------------------------------------------------------------- C5
\* The publications whose tracks call k has collected.
Collected(user, call) ==
    {user.receivePcWrap.transceivers[call.tracks[j]].forPusher :
        j \in 1..Len(call.tracks)}

\* C5: when a subscribe call started by a newPusher that added k >= 1
\* publications has received a track for each of them (and every slot of
\* the session has delivered its track, so none is still to come), the call
\* has completed and those tracks are in the participant's inbound buffer.
C5_CompletesOnNewTracks ==
    \A k \in 1..Len(pulls) :
        LET call == pulls[k]
            i == FindUser(remoteUsers, call.target)
            user == remoteUsers[i]
        IN (/\ call.origin = "newPusher"
            /\ call.added # {}
            /\ call.pc \in {"tracks", "done"}
            /\ call.added \subseteq Collected(user, call)
            /\ \A t \in 1..Len(user.receivePcWrap.transceivers) :
                   user.receivePcWrap.transceivers[t].st = "fired")
           => /\ call.pc = "done"
              /\ \A j \in 1..Len(call.tracks) :
                     call.tracks[j] \in user.playStream.tracks

\* ---------------------------------------------------------------- C6
\* C6: the step in which a join response with code 0 is handled puts every
\* listed user in the table and starts one pullRemoteUser call for each
\* participant that has a publication, and none for any other.
C6_JoinUpsertsAndPulls ==
    [][(joinPc = "request" /\ joinPc' = "done" /\ joinResp'.code = 0) =>
          LET started == SubSeq(pulls', Len(pulls) + 1, Len(pulls'))
          IN /\ \A id \in joinResp'.listed :
                    \E i \in 1..Len(remoteUsers') : remoteUsers'[i].userId = id
             /\ \A j \in 1..Len(started) :
                    /\ started[j].origin = "join"
                    /\ started[j].pc = "offer"
                    /\ \E i \in 1..Len(remoteUsers') :
                           remoteUsers'[i].userId = started[j].target
             /\ \A i \in 1..Len(remoteUsers') :
                    Cardinality({j \in 1..Len(started) :
                                    started[j].target = remoteUsers'[i].userId})
                        = IF Len(remoteUsers'[i].pushers) > 0 THEN 1 ELSE 0
      ]_vars

\* A join response with code 0 listed two users, one with a publication and
\* one without: both are in the table and one call was started.
C6_Witness ==
    /\ joinPc = "done"
    /\ joinResp.code = 0
    /\ Cardinality(joinResp.listed) = 2
    /\ Len(remoteUsers) = 2
    /\ \E i \in 1..2 : Len(remoteUsers[i].pushers) = 0
    /\ Len(pulls) = 1
    /\ pulls[1].origin = "join"

\* ---------------------------------------------------------------- C7
\* C7: the step in which a join fails (the channel does not open, or the
\* join request rejects) reports the failure, leaves the table as it was
\* and starts no pullRemoteUser call; a failed join never has status 'joined'.
C7_JoinFailureLeavesNoState ==
    [][/\ (joinPc \in {"connect", "request"} /\ joinPc' = "failed") =>
              /\ lastAlert' \in {"Failed to connect", "Join failed"}
              /\ remoteUsers' = remoteUsers
              /\ pulls' = pulls
       /\ joinPc' = "failed" => wsStatus' # "joined"
      ]_vars

\* The join request was rejected while the table already held a participant.
C7_Witness ==
    /\ joinPc = "failed"
    /\ joinRequests = 1
    /\ lastAlert = "Join failed"
    /\ Len(remoteUsers) > 0
    /\ Len(pulls) > 0

\* ---------------------------------------------------------------- C8
\* C8: the step in which a join response with a non-zero code is handled
\* does not set the status to 'joined', upserts nobody and starts no
\* pullRemoteUser call.
C8_RejectedJoinIsFailure ==
    [][(joinPc = "request" /\ joinPc' = "done" /\ joinResp'.code # 0) =>
          /\ wsStatus' # "joined"
          /\ remoteUsers' = remoteUsers
          /\ pulls' = pulls
      ]_vars

\* ---------------------------------------------------------------- C9
\* C9: a Join pressed while a join is in flight creates no transport, sends
\* no join request, leaves the in-flight join, the table and the status as
\* they were, and is reported as a failure to connect.
C9_SecondJoinRejected ==
    [][(joinCalls' = joinCalls + 1 /\ joinPc \in {"connect", "request"}) =>
          /\ transports' = transports
          /\ joinRequests' = joinRequests
          /\ peer' = peer
          /\ joinPc' = joinPc
          /\ remoteUsers' = remoteUsers
          /\ wsStatus' = wsStatus
          /\ lastAlert' = "Failed to connect"
      ]_vars

\* Join was pressed twice, the second time with the join request outstanding.
C9_Witness ==
    /\ joinCalls = 2
    /\ joinPc = "request"
    /\ transports = 1
    /\ joinRequests = 1
    /\ lastAlert = "Failed to connect"

\* ---------------------------------------------------------------- C10
\* C10: Open Devices pressed while the status is not 'joined' creates no
\* Local Publish Session, asks for no capture device and sends no push.
C10_OpenDevicesNeedsJoin ==
    [][(openCalls' = openCalls + 1 /\ wsStatus # "joined") =>
          /\ sendPcWarp' = sendPcWarp
          /\ pubs' = pubs
          /\ captureRequests' = captureRequests
          /\ pushRequests' = pushRequests
      ]_vars

\* Open Devices was pressed on a connected, not yet joined client.
C10_Witness ==
    /\ openCalls >= 1
    /\ wsStatus = "connected"
    /\ lastAlert = "Please join a room first."
    /\ ~sendPcWarp.present
    /\ captureRequests = 0

\* ---------------------------------------------------------------- C11
\* C11: at most one Local Publish Session is ever created, and an Open
\* Devices call made while the session holds a capture stream is handed that
\* same stream, asks for no capture device and leaves the session's stream
\* as it is.
C11_OpenDevicesIdempotent ==
    [][/\ Cardinality({k \in 1..Len(pubs') : pubs'[k].created}) <= 1
       /\ (openCalls' = openCalls + 1 /\ wsStatus = "joined"
             /\ sendPcWarp.localStream # 0) =>
             /\ Len(pubs') = Len(pubs) + 1
             /\ pubs'[Len(pubs')].medias = sendPcWarp.localStream
             /\ ~pubs'[Len(pubs')].created
             /\ captureRequests' = captureRequests
             /\ sendPcWarp'.localStream = sendPcWarp.localStream
      ]_vars

\* Open Devices was pressed twice, the second time after the first call's
\* capture was granted: both calls hold the same stream, acquired once.
C11_Witness ==
    /\ Len(pubs) = 2
    /\ pubs[1].created
    /\ pubs[1].medias # 0
    /\ pubs[2].medias = pubs[1].medias
    /\ pubs[2].pc # "capture"
    /\ captureRequests = 1

\* ---------------------------------------------------------------- C12
\* C12: when the push response carries a non-zero code the call reports
\* "Push failed", the answer is not applied, the capture stream stays open,
\* the membership table and the subscribe calls are untouched, and the
\* session is left with nothing but the capture: when the rejected call is
\* the only publish call so far, it has no peer connection and no sender.
C12_RejectedPushLeavesOnlyCapture ==
    [][\A k \in 1..Len(pubs) :
          (pubs[k].code = -1 /\ pubs'[k].code \notin {-1, 0}) =>
             /\ pubs'[k].pc = "failed"
             /\ lastAlert' = "Push failed"
             /\ sendPcWarp'.remoteSet = sendPcWarp.remoteSet
             /\ sendPcWarp'.localStream = sendPcWarp.localStream
             /\ sendPcWarp'.localStream # 0
             /\ remoteUsers' = remoteUsers
             /\ pulls' = pulls
             /\ (Len(pubs) = 1 =>
                    /\ ~sendPcWarp'.pcOpen
                    /\ sendPcWarp'.senders = 0)
      ]_vars

\* ---------------------------------------------------------------- C13
\* The calls of pullRemoteUser a step makes.
NewCalls == (Len(pulls) + 1)..Len(pulls')

\* C13: a subscribe call whose target is not in the table, or is in it
\* without a Subscription Session, fails as not found: no offer is created
\* for it and no pull request is sent, at the call or later, and a call made
\* on its own changes nothing else.
C13_SubscribeNotFound ==
    [][/\ \A k \in NewCalls :
             LET i == FindUser(remoteUsers', pulls'[k].target)
             IN (i = 0 \/ ~remoteUsers'[i].receivePcWrap.present) =>
                   /\ pulls'[k].pc = "notfound"
                   /\ pulls'[k].offer = {}
                   /\ pulls'[k].code = -1
                   /\ pulls'[k].origin = "direct" =>
                         /\ remoteUsers' = remoteUsers
                         /\ pulls' = Append(pulls, pulls'[k])
                         /\ UNCHANGED PullVars
       /\ \A k \in 1..Len(pulls) :
             pulls[k].pc = "notfound" => pulls'[k] = pulls[k]
      ]_vars

\* Subscribe was called for "8", in the table without a session, and for
\* "9", not in the table; both calls failed as not found.
C13_Witness ==
    /\ \E i \in 1..Len(remoteUsers) :
          /\ remoteUsers[i].userId = <<"8">>
          /\ ~remoteUsers[i].receivePcWrap.present
    /\ \E k \in 1..Len(pulls) :
          pulls[k].target = <<"8">> /\ pulls[k].pc = "notfound"
    /\ \E k \in 1..Len(pulls) :
          pulls[k].target = <<"9">> /\ pulls[k].pc = "notfound"

\* ---------------------------------------------------------------- C14
\* C14: a non-zero code in the pull response rejects the call: the answer
\* is not applied and no listener is attached (the call has collected no
\* track and never collects one), and no step of the call up to the
\* rejection writes the participant: publication list, inbound buffer and
\* mute flags are what they were.
C14_RejectedPullLeavesNoState ==
    [][\A k \in 1..Len(pulls) :
          /\ (pulls[k].code = -1 /\ pulls'[k].code \notin {-1, 0}) =>
                /\ pulls'[k].pc = "rejected"
                /\ pulls'[k].tracks = <<>>
                /\ remoteUsers' = remoteUsers
          /\ (pulls[k].pc = "offer" /\ pulls'[k].pc \in {"pull", "rejected"}) =>
                remoteUsers' = remoteUsers
          /\ pulls[k].pc = "rejected" => pulls'[k] = pulls[k]
      ]_vars

\* The pull for "7" was answered with code 1: the call is rejected, no slot
\* of "7" was negotiated and its inbound buffer is empty.
C14_Witness ==
    \E k \in 1..Len(pulls), i \in 1..Len(remoteUsers) :
        /\ pulls[k].code = 1
        /\ pulls[k].pc = "rejected"
        /\ remoteUsers[i].userId = pulls[k].target
        /\ remoteUsers[i].pushers = <<P1v>>
        /\ \A t \in 1..Len(remoteUsers[i].receivePcWrap.transceivers) :
              remoteUsers[i].receivePcWrap.transceivers[t].st = "new"
        /\ remoteUsers[i].playStream.tracks = {}

\* ---------------------------------------------------------------- C15
\* The track of transceiver t of a participant is enabled exactly when the
\* mute flag of its kind is not set.
FollowsFlag(user, t, muted) ==
    user.receivePcWrap.transceivers[t].enabled
        <=> (user.receivePcWrap.transceivers[t].kind \notin muted)

\* C15: when a subscribe call adds its tracks to the participant's inbound
\* buffer, every one of them enters it enabled or disabled according to the
\* mute flags the participant has at that moment, whatever they were when
\* the call was made.
C15_TracksArriveInCurrentMuteState ==
    [][\A k \in 1..Len(pulls) :
          (pulls[k].pc = "tracks" /\ pulls'[k].pc = "done") =>
             LET i == FindUser(remoteUsers, pulls[k].target)
             IN \A j \in 1..Len(pulls'[k].tracks) :
                   /\ pulls'[k].tracks[j] \in remoteUsers'[i].playStream.tracks
                   /\ FollowsFlag(remoteUsers'[i], pulls'[k].tracks[j],
                                  MutedKinds(remoteUsers[i]))
      ]_vars

\* A call that was made with no flag set completed after video was muted:
\* its video track is in the buffer, disabled.
C15_Witness ==
    \E k \in 1..Len(pulls), i \in 1..Len(remoteUsers) :
        /\ pulls[k].pc = "done"
        /\ remoteUsers[i].userId = pulls[k].target
        /\ pulls[k].mutedAtCall = {}
        /\ pulls[k].mutedAtAdd = {"video"}
        /\ \E j \in 1..Len(pulls[k].tracks) :
              LET t == pulls[k].tracks[j]
              IN /\ remoteUsers[i].receivePcWrap.transceivers[t].kind = "video"
                 /\ t \in remoteUsers[i].playStream.tracks
                 /\ ~remoteUsers[i].receivePcWrap.transceivers[t].enabled

\* ---------------------------------------------------------------- C16
\* C16: in every state, every track in a participant's inbound buffer is
\* enabled exactly when the participant's mute flag for its kind is not set.
C16_BufferFollowsMuteFlags ==
    \A i \in 1..Len(remoteUsers) :
        \A t \in remoteUsers[i].playStream.tracks :
            FollowsFlag(remoteUsers[i], t, MutedKinds(remoteUsers[i]))

\* Audio was muted and unmuted again with both tracks in the buffer, video
\* is muted: the audio track is enabled, the video track disabled.
C16_Witness ==
    \E i \in 1..Len(remoteUsers) :
        /\ remoteUsers[i].audioMuted = "false"
        /\ remoteUsers[i].videoMuted = "true"
        /\ \E a, v \in remoteUsers[i].playStream.tracks :
              /\ remoteUsers[i].receivePcWrap.transceivers[a].kind = "audio"
              /\ remoteUsers[i].receivePcWrap.transceivers[a].enabled
              /\ remoteUsers[i].receivePcWrap.transceivers[v].kind = "video"
              /\ ~remoteUsers[i].receivePcWrap.transceivers[v].enabled
        /\ \E k \in 1..Len(pulls) :
              pulls[k].pc = "done" /\ pulls[k].mutedAtAdd = {"audio"}

\* ---------------------------------------------------------------- C17
\* The table positions of the participant a notification names, under the
\* normalized comparison that defines a participant's identity.
Named(table, id) ==
    {i \in 1..Len(table) : normalizeId(Str(table[i].userId)) = normalizeId(id)}

\* C17: a userLeave notification for a participant in the table removes
\* that entry and no other, closes and drops the entry's Subscription
\* Session and clears its <video> binding.
C17_LeaveRemovesParticipant ==
    [][(lastNotif' # lastNotif /\ lastNotif'.method = "userLeave") =>
          \A i \in Named(remoteUsers, lastNotif'.userId) :
             /\ remoteUsers' = Splice(remoteUsers, i)
             /\ Len(removed') = Len(removed) + 1
             /\ LET r == removed'[Len(removed')]
                IN /\ r.user.userId = remoteUsers[i].userId
                   /\ ~r.user.receivePcWrap.present
                   /\ r.user.videoRef = NoVideoRef
                   /\ ~r.session.pcOpen
      ]_vars

\* ---------------------------------------------------------------- C18
\* The subscribe calls userLeave caught in flight.
CaughtInFlight(k) ==
    /\ k <= Len(pulls)
    /\ pulls[k].left
    /\ pulls[k].pc \in {"offer", "pull", "tracks"}

HasRejected(k) == k <= Len(pulls) /\ pulls[k].pc = "rejected"

\* C18: a subscribe call that is in flight when userLeave removes its
\* participant never resolves and does not stay pending for ever: it
\* eventually rejects.
C18_LeaveCancelsSubscribe ==
    /\ [][\A k \in 1..Len(pulls) :
             (pulls[k].left /\ pulls[k].pc # "done") => pulls'[k].pc # "done"]_vars
    /\ \A k \in 1..(2 * MaxDeliveries) :
          CaughtInFlight(k) ~> HasRejected(k)

\* ---------------------------------------------------------------- C19
\* C19: userDisconnect sets the named participant's state to disconnected
\* and userReconnect sets it to connected; nothing else of the entry, no
\* other entry, no subscribe call and no removed participant changes, and a
\* notification naming nobody in the table changes nothing.
C19_DisconnectTouchesOnlyState ==
    [][(lastNotif' # lastNotif
          /\ lastNotif'.method \in {"userDisconnect", "userReconnect"}) =>
          LET want == IF lastNotif'.method = "userDisconnect"
                      THEN "disconnected" ELSE "connected"
              named == Named(remoteUsers, lastNotif'.userId)
          IN /\ Len(remoteUsers') = Len(remoteUsers)
             /\ \A i \in 1..Len(remoteUsers) :
                   remoteUsers'[i] = IF i \in named
                                     THEN [remoteUsers[i] EXCEPT !.state = want]
                                     ELSE remoteUsers[i]
             /\ pulls' = pulls
             /\ removed' = removed
      ]_vars


\* What the table says of who is in the room: each entry's identity, name,
\* publications and connection state.
Membership(table) ==
    [i \in 1..Len(table) |->
        [userId |-> table[i].userId, userName |-> table[i].userName,
         pushers |-> table[i].pushers, state |-> table[i].state]]

\* C20: notifications are reduced one at a time in delivery order. Only the
\* latest call of onNotification can be unfinished, so no two handler
\* invocations interleave; and the membership table and the chat log a call
\* has produced so far are exactly what its statements make of the table
\* and the chat log it found: every effect of the calls delivered before it
\* was already applied, and no effect of another task falls in between.
C20_NotificationsReducedInOrder ==
    \A i \in 1..Len(invocations) :
        LET h == invocations[i]
        IN /\ i < Len(invocations) => h.done
           /\ h.done =>
                 /\ h.after.table = TableAfter(h.before.table, h.notif, StepsOf(h.notif))
                 /\ h.after.chat = ChatAfter(h.before.chat, h.notif, StepsOf(h.notif))
           /\ ~h.done =>
                 /\ remoteUsers = TableAfter(h.before.table, h.notif, h.pos - 1)
                 /\ chatMessages = ChatAfter(h.before.chat, h.notif, h.pos - 1)
           /\ i > 1 =>
                 /\ Membership(h.before.table) # Membership(invocations[i - 1].after.table)
                       => joinResp.code = 0
                 /\ h.before.chat = invocations[i - 1].after.chat

\* Three notifications were handled one after the other: a 'newUser' that
\* listed two users, a 'newPusher' merge for one of them, and a chat
\* message, each finding what the one before it left.
C20_Witness ==
    /\ Len(invocations) = 3
    /\ invocations[1].notif.method = "newUser"
    /\ Len(invocations[1].notif.users) = 2
    /\ invocations[2].notif.method = "newPusher"
    /\ invocations[3].notif.method = "textMessage"
    /\ \A i \in 1..3 : invocations[i].done
    /\ Len(remoteUsers) = 2
    /\ Len(remoteUsers[1].pushers) = 2
    /\ Len(chatMessages) = 1
    /\ Membership(invocations[2].before.table) = Membership(invocations[1].after.table)


\* ---------------------------------------------------------------- C21
\* C21: a participant in the table has a receive session and an inbound
\* buffer exactly when it has at least one publication; and a handler that
\* adds an entry with no publications gives it neither and starts no pull
\* for it.
C21_SessionIffPublications ==
    /\ [](\A i \in 1..Len(remoteUsers) :
            /\ remoteUsers[i].receivePcWrap.present <=> Len(remoteUsers[i].pushers) > 0
            /\ remoteUsers[i].playStream.present <=> Len(remoteUsers[i].pushers) > 0)
    /\ [][\A i \in 1..Len(remoteUsers') :
             (i > Len(remoteUsers) /\ Len(remoteUsers'[i].pushers) = 0) =>
                /\ ~remoteUsers'[i].receivePcWrap.present
                /\ ~remoteUsers'[i].playStream.present
                /\ \A k \in 1..Len(pulls') :
                      k > Len(pulls) => pulls'[k].target # remoteUsers'[i].userId]_vars

\* A join response has listed one participant without publications and one
\* with a publication: the first has no session and no pull, the second
\* has a session, a buffer and a pull.
C21_Witness ==
    /\ joinPc = "done"
    /\ joinResp.code = 0
    /\ Len(remoteUsers) = 2
    /\ Len(remoteUsers[1].pushers) = 0
    /\ ~remoteUsers[1].receivePcWrap.present
    /\ Len(remoteUsers[2].pushers) > 0
    /\ remoteUsers[2].receivePcWrap.present
    /\ remoteUsers[2].playStream.present
    /\ \A k \in 1..Len(pulls) : pulls[k].target # remoteUsers[1].userId
    /\ \E k \in 1..Len(pulls) : pulls[k].target = remoteUsers[2].userId


\* ---------------------------------------------------------------- C22
\* The name a participant has after the payloads of users were upserted in
\* order, when it had the name before (undefined when it was not in the
\* table): the userName of the last payload for its id that carries one.
RECURSIVE NameAfter(_, _, _)
NameAfter(name, users, id) ==
    IF users = <<>> THEN name
    ELSE LET u == Head(users)
         IN NameAfter(IF normalizeId(u.userId) = id /\ u.userName # Undefined
                      THEN u.userName ELSE name,
                      Tail(users), id)

\* The name the table has for id, undefined when id is not in it.
NameOf(table, id) ==
    LET i == FindIdx(table, Str(id))
    IN IF i = 0 THEN Undefined ELSE table[i].userName

\* The payload lists the handlers of the naming specification receive.
NameLists == SeqsOf(NameUsers, 1, 2)

\* C22: after a handler has upserted a list of payloads, every participant
\* the list names has exactly one entry, whose name is the userName of the
\* most recent payload for it that carried one, or its earlier name when
\* none did.
C22_LatestNameWins ==
    [][\A us \in NameLists :
          (\/ NewUser(us)
           \/ JoinResponse([code |-> 0, users |-> Arr(us)])
           \/ (Len(us) = 1 /\ NewPusher(us[1]))) =>
             \A k \in 1..Len(us) :
                LET id == normalizeId(us[k].userId)
                IN /\ Cardinality({i \in 1..Len(remoteUsers') :
                                      remoteUsers'[i].userId = id}) = 1
                   /\ NameOf(remoteUsers', id)
                         = NameAfter(NameOf(remoteUsers, id), us, id)]_vars

\* Three payloads for "7" were upserted, the join response's among them:
\* the table has one entry for it, named "B", and no call of
\* pullRemoteUser was made.
C22_Witness ==
    /\ delivered = 3
    /\ Len(remoteUsers) = 1
    /\ remoteUsers[1].userId = <<"7">>
    /\ remoteUsers[1].userName = "B"
    /\ joinResp.listed = {<<"7">>}
    /\ Len(pulls) = 0


\* ---------------------------------------------------------------- C23
\* C23: a participant that stays in the table keeps the buffer it has: no
\* step gives it another MediaStream or takes a track out of it.
C23_BufferOnlyGrows ==
    [][\A i \in 1..Len(remoteUsers) : \A j \in 1..Len(remoteUsers') :
          (/\ remoteUsers'[j].userId = remoteUsers[i].userId
           /\ remoteUsers[i].playStream.present) =>
             /\ remoteUsers'[j].playStream.present
             /\ remoteUsers'[j].playStream.gen = remoteUsers[i].playStream.gen
             /\ remoteUsers[i].playStream.tracks
                   \subseteq remoteUsers'[j].playStream.tracks]_vars

\* A participant announced with one publication and then, by newPusher,
\* with a second has the tracks of both in its first buffer, added by two
\* completed subscribe calls.
C23_Witness ==
    \E i \in 1..Len(remoteUsers) :
        /\ Len(remoteUsers[i].pushers) = 2
        /\ remoteUsers[i].playStream.gen = 1
        /\ Cardinality(remoteUsers[i].playStream.tracks) = 2
        /\ \E k \in 1..Len(pulls) :
              pulls[k].origin = "newPusher" /\ pulls[k].pc = "done"
                 /\ pulls[k].target = remoteUsers[i].userId
        /\ \E k \in 1..Len(pulls) :
              pulls[k].origin # "newPusher" /\ pulls[k].pc = "done"
                 /\ pulls[k].target = remoteUsers[i].userId


\* ---------------------------------------------------------------- C24
\* The handler of a 'textMessage' notification returns in this step.
TextHandled(i) ==
    /\ i <= Len(invocations)
    /\ invocations[i].notif.method = "textMessage"
    /\ ~invocations[i].done
    /\ invocations'[i].done

\* C24: the handler of a 'textMessage' notification whose message is a
\* string appends exactly one entry, marked as not the local user's, at the
\* end of the chat log; and no step of anything removes, changes or moves
\* an entry the log already has.
C24_ChatLogAppendOnly ==
    [][/\ Len(chatMessages') >= Len(chatMessages)
       /\ SubSeq(chatMessages', 1, Len(chatMessages)) = chatMessages
       /\ \A i \in 1..MaxNotifications :
             (TextHandled(i) /\ invocations[i].notif.message.isString) =>
                /\ Len(chatMessages') = Len(chatMessages) + 1
                /\ chatMessages'[Len(chatMessages')].self = FALSE
                /\ chatMessages'[Len(chatMessages')].message
                      = invocations[i].notif.message.text
                /\ chatMessages'[Len(chatMessages')].userId
                      = normalizeId(invocations[i].notif.userId)]_vars

\* The log holds a remote entry, then the local user's own, then another
\* remote entry, in the order they were appended.
C24_Witness ==
    /\ Len(chatMessages) = 3
    /\ ~chatMessages[1].self /\ chatMessages[1].message = "hi"
    /\ chatMessages[2].self
    /\ ~chatMessages[3].self /\ chatMessages[3].message = "yo"
    /\ chatMessages[3].userId = <<"8">>


\* ---------------------------------------------------------------- C25
\* C25: a call of sendMessage made while the status is not 'joined' fails
\* and hands no notification to the peer; the chat log gets the local
\* user's entry only when the notification was written to the socket; and
\* a call whose notification was not written fails and leaves the chat log
\* as it was.
C25_SendReportsFailure ==
    [][Len(sends') = Len(sends) + 1 =>
          LET call == sends'[Len(sends')]
          IN /\ wsStatus # "joined" =>
                   /\ call.result = "rejected"
                   /\ ~call.notified
                   /\ chatMessages' = chatMessages
             /\ chatMessages' # chatMessages => call.sent
             /\ ~call.sent =>
                   /\ call.result = "rejected"
                   /\ chatMessages' = chatMessages]_vars


\* ---------------------------------------------------------------- C26
\* C26: a heartbeat request is issued only while the status is 'connected'
\* or 'joined', and a heartbeat that fails changes nothing: the status, the
\* table, the sessions and the join, publish and subscribe calls in flight
\* stay as they are.
C26_HeartbeatFailureChangesNothing ==
    [][/\ heartbeat'.issued > heartbeat.issued =>
             wsStatus \in {"connected", "joined"}
       /\ heartbeat'.failed > heartbeat.failed =>
             /\ wsStatus' = wsStatus
             /\ remoteUsers' = remoteUsers
             /\ sendPcWarp' = sendPcWarp
             /\ joinPc' = joinPc
             /\ pulls' = pulls
             /\ pubs' = pubs
             /\ UNCHANGED HeartbeatFrame]_vars

\* A heartbeat has failed while the client was joined with a subscribe call
\* awaiting its pull response and a publish call awaiting its push response.
C26_Witness ==
    /\ heartbeat.failed > 0
    /\ heartbeat.issued > 0
    /\ wsStatus = "joined"
    /\ \E k \in 1..Len(pulls) : pulls[k].pc = "pull"
    /\ \E k \in 1..Len(pubs) : pubs[k].pc = "push"


\* ---------------------------------------------------------------- C27
\* C27: when the connection refuses the server's answer, the subscribe or
\* publish call that handed it over fails, and the session the answer was
\* for stays open.
C27_AnswerFailureIsReported ==
    [][/\ \A k \in 1..Len(pulls) :
             (pulls[k].answer = "none" /\ pulls'[k].answer = "failed") =>
                /\ pulls'[k].pc = "rejected"
                /\ LET i == FindUser(remoteUsers', pulls[k].target)
                   IN /\ i > 0
                      /\ remoteUsers'[i].receivePcWrap.present
                      /\ remoteUsers'[i].receivePcWrap.pcOpen
       /\ \A k \in 1..Len(pubs) :
             (pubs[k].answer = "none" /\ pubs'[k].answer = "failed") =>
                /\ pubs'[k].pc = "failed"
                /\ sendPcWarp'.present
                /\ sendPcWarp'.pcOpen]_vars


\* ---------------------------------------------------------------- C28
\* C28: userLeave, userDisconnect and userReconnect act on the participant
\* whose stored id equals the notification's userId under normalizeId:
\* after userLeave the table has no such participant, after userDisconnect
\* it is disconnected, after userReconnect it is connected.
C28_NotificationsResolveNormalizedId ==
    [][lastNotif' # lastNotif =>
          LET id == lastNotif'.userId
              method == lastNotif'.method
          IN Named(remoteUsers, id) # {} =>
                /\ method = "userLeave" => Named(remoteUsers', id) = {}
                /\ method = "userDisconnect" =>
                      \A j \in Named(remoteUsers', id) :
                          remoteUsers'[j].state = "disconnected"
                /\ method = "userReconnect" =>
                      \A j \in Named(remoteUsers', id) :
                          remoteUsers'[j].state = "connected"]_vars


\* ---------------------------------------------------------------- C29
\* The subscribe calls whose offer/answer exchange is pending: the offer
\* is being created, or the 'pull' request awaits its response.
Negotiating(target) ==
    {k \in 1..Len(pulls) :
        pulls[k].target = target /\ pulls[k].pc \in {"offer", "pull"}}

\* C29: for every participant at most one subscribe call is in its
\* offer/answer exchange at any time.
C29_OnePullPerParticipant ==
    \A k \in 1..Len(pulls) : Cardinality(Negotiating(pulls[k].target)) <= 1


\* ---------------------------------------------------------------- C30
\* The publications that have a transceiver on a session.
ReservedOn(w) == {w.transceivers[p].forPusher : p \in 1..Len(w.transceivers)}

\* The publications the transceivers of an offer receive.
DescribedBy(w, offer) == {w.transceivers[p].forPusher : p \in offer}

\* C30: when the offer of a subscribe call is created, every publication the
\* call's pull request lists already had a transceiver on the participant's
\* session, and the offer describes it; a pull request is only ever sent
\* with an offer that describes a transceiver; and createOfferAndEmit on a
\* receive-only session without transceivers throws and produces no offer.
C30_SlotsReservedBeforeOffer ==
    /\ [](\A k \in 1..Len(pulls) :
            pulls[k].pc \in {"pull", "tracks", "done"} => pulls[k].offer # {})
    /\ [](\A c \in 1..Len(recvSession.offers) :
            /\ recvSession.offers[c].slots = 0 =>
                  /\ recvSession.offers[c].result = "throws"
                  /\ recvSession.offers[c].offer = {}
            /\ recvSession.offers[c].result = "offer" =>
                  recvSession.offers[c].offer # {})
    /\ [][\A k \in 1..Len(pulls) :
            (pulls[k].pc = "offer" /\ pulls'[k].pc = "pull") =>
                LET i == FindUser(remoteUsers, pulls[k].target)
                    w == remoteUsers[i].receivePcWrap
                IN \A s \in 1..Len(pulls[k].specs) :
                      /\ pulls[k].specs[s].pusher_id \in ReservedOn(w)
                      /\ pulls[k].specs[s].pusher_id
                            \in DescribedBy(w, pulls'[k].offer)]_vars

\* A pull request listing a publication has been sent with an offer that
\* describes its transceiver, and createOfferAndEmit has thrown on the
\* session used on its own while it had no transceiver and has returned an
\* offer once it had one.
C30_Witness ==
    /\ \E k \in 1..Len(pulls) :
          /\ pulls[k].pc = "pull"
          /\ Len(pulls[k].specs) > 0
          /\ pulls[k].offer # {}
    /\ \E c, d \in 1..Len(recvSession.offers) :
          /\ recvSession.offers[c].slots = 0
          /\ recvSession.offers[c].result = "throws"
          /\ recvSession.offers[d].slots > 0
          /\ recvSession.offers[d].result = "offer"


\* ---------------------------------------------------------------- C31
\* The position of the transceiver a session reserved for a publication
\* (0 when it has none).
SlotOf(w, pusherId) ==
    LET hits == {t \in 1..Len(w.transceivers) : w.transceivers[t].forPusher = pusherId}
    IN IF hits = {} THEN 0 ELSE CHOOSE t \in hits : \A u \in hits : t <= u

\* What the session's map records for a publication ("none" without entry).
MappedMid(w, pusherId) ==
    LET hits == {r \in 1..Len(w.recvMap) : w.recvMap[r].pusher_id = pusherId}
    IN IF hits = {} THEN "none" ELSE w.recvMap[CHOOSE r \in hits : TRUE].mid

\* C31: once a subscribe call has completed successfully, the session's map
\* gives, for each publication the call listed, the mid negotiated for the
\* publication's transceiver, and two publications never share a mid.
C31_MapHoldsNegotiatedMid ==
    \A k \in 1..Len(pulls) :
        (pulls[k].pc = "done" /\ pulls[k].code = 0 /\ ~pulls[k].left) =>
            LET i == FindUser(remoteUsers, pulls[k].target)
                w == remoteUsers[i].receivePcWrap
                ids == {pulls[k].specs[s].pusher_id : s \in 1..Len(pulls[k].specs)}
            IN /\ \A p \in ids :
                     /\ SlotOf(w, p) # 0
                     /\ MappedMid(w, p) = NegotiatedMid(SlotOf(w, p))
               /\ \A p, q \in ids : p # q => MappedMid(w, p) # MappedMid(w, q)


\* ---------------------------------------------------------------- C32
\* The last call made on the wrapper.
LastCall(w) == w.calls[Len(w.calls)]

\* C32: connect() on a wrapper that holds a peer, connecting or open, fails
\* with 'Already connected' and leaves the peer, the url, the transports
\* and the registered handlers as they were; connect() on a wrapper that
\* close() has just left is accepted and creates a transport for its url.
C32_ConnectWhileHeldIsRefused ==
    [][\A url \in Urls :
          connect(url) =>
             /\ wsWrap.peer \in {"connecting", "open"} =>
                   /\ LastCall(wsWrap').result = "Already connected"
                   /\ wsWrap'.peer = wsWrap.peer
                   /\ wsWrap'.url = wsWrap.url
                   /\ wsWrap'.made = wsWrap.made
                   /\ wsWrap'.listeners = wsWrap.listeners
                   /\ wsWrap'.handed = wsWrap.handed
             /\ (wsWrap.calls # <<>> /\ LastCall(wsWrap).op = "close") =>
                   /\ LastCall(wsWrap').result = "connecting"
                   /\ wsWrap'.peer = "connecting"
                   /\ wsWrap'.url = url
                   /\ wsWrap'.made = Append(wsWrap.made, url)]_vars

\* A connect() was refused while the peer of an earlier connect() was held,
\* and after a close() a further connect() was accepted.
C32_Witness ==
    \E a, b, c, d \in 1..Len(wsWrap.calls) :
        /\ a < b /\ b < c /\ c < d
        /\ wsWrap.calls[a].op = "connect" /\ wsWrap.calls[a].result = "connecting"
        /\ wsWrap.calls[b].op = "connect" /\ wsWrap.calls[b].result = "Already connected"
        /\ wsWrap.calls[c].op = "close"
        /\ wsWrap.calls[d].op = "connect" /\ wsWrap.calls[d].result = "connecting"
        /\ Len(wsWrap.made) = 2


\* ---------------------------------------------------------------- C33
\* C33: sendRequest() and sendNotify() fail, and hand nothing to any peer,
\* when the wrapper holds no peer (connect() never called, or close() called
\* since) or holds a closed one; in every other state the message is handed
\* to the held peer exactly once.
C33_SendNeedsLivePeer ==
    [][(WrapSendRequest \/ WrapSendNotify) =>
          IF wsWrap.peer \in {"null", "closed"}
          THEN /\ LastCall(wsWrap').result \in {"Not connected", "Peer is closed"}
               /\ wsWrap'.handed = wsWrap.handed
          ELSE /\ LastCall(wsWrap').result = "handed"
               /\ Len(wsWrap'.handed) = Len(wsWrap.handed) + 1
               /\ SubSeq(wsWrap'.handed, 1, Len(wsWrap.handed)) = wsWrap.handed
               /\ wsWrap'.handed[Len(wsWrap'.handed)] =
                     [op |-> LastCall(wsWrap').op,
                      method |-> LastCall(wsWrap').arg,
                      to |-> Len(wsWrap.made)]]_vars

\* A send before any connect() has failed, a send on the open peer has been
\* handed over, and a send after the peer closed has failed.
C33_Witness ==
    /\ Len(wsWrap.calls) = 4
    /\ wsWrap.calls[1].result = "Not connected"
    /\ wsWrap.calls[2].op = "connect"
    /\ wsWrap.calls[3].result = "handed"
    /\ wsWrap.calls[4].result = "Peer is closed"
    /\ Len(wsWrap.handed) = 1


\* ---------------------------------------------------------------- C34
\* C34: reconnect() on a wrapper that connect(url) has given a url drops the
\* current peer and creates a transport for that same url, which stays the
\* wrapper's url; reconnect() fails with 'No URL to reconnect to' only on a
\* wrapper on which connect() was never accepted.
C34_ReconnectUsesSameUrl ==
    [][reconnect =>
          /\ wsWrap.url # NoUrl =>
                /\ wsWrap'.made = Append(wsWrap.made, wsWrap.url)
                /\ wsWrap'.url = wsWrap.url
                /\ wsWrap'.peer = "connecting"
                /\ wsWrap'.listeners = Len(wsWrap'.made)
          /\ LastCall(wsWrap').result = "No URL to reconnect to" =>
                wsWrap.made = <<>>]_vars


\* ---------------------------------------------------------------- C35
\* C35: with trickleIce = false an offer is only emitted once ICE gathering
\* is complete, and when the connection state becomes failed, closed or
\* disconnected while the call waits for gathering, the call is rejected
\* and emits no offer; with any other option the offer is emitted when the
\* local description is set, without waiting.
C35_OfferWaitsForGathering ==
    [][/\ iceSession'.emitted > iceSession.emitted =>
             (iceSession.trickleIce = "false" => iceSession'.gathering = "complete")
       /\ (/\ iceSession.pc = "waiting"
           /\ iceSession'.connection # iceSession.connection
           /\ AbortsGathering(iceSession'.connection)) =>
                /\ iceSession'.pc = "rejected"
                /\ iceSession'.emitted = iceSession.emitted
       /\ (IceDescriptionSet /\ iceSession.trickleIce # "false") =>
             iceSession'.emitted = iceSession.emitted + 1]_vars


\* ---------------------------------------------------------------- C36
\* C36: for every participant of the table that has a session, the
\* publications with a transceiver on the session are exactly the
\* publications of the participant's list.
C36_SlotsMatchPublications ==
    \A i \in 1..Len(remoteUsers) :
        remoteUsers[i].receivePcWrap.present =>
            ReservedOn(remoteUsers[i].receivePcWrap) = PusherIdsOf(remoteUsers[i].pushers)


\* After two participant payloads, a participant with a session has two
\* publications, and the session a transceiver for each.
C36_Witness ==
    \E i \in 1..Len(remoteUsers) :
        /\ remoteUsers[i].receivePcWrap.present
        /\ delivered >= 2
        /\ ReservedOn(remoteUsers[i].receivePcWrap) = {"p1", "p2"}
        /\ PusherIdsOf(remoteUsers[i].pushers) = {"p1", "p2"}


\* ---------------------------------------------------------------- C37
\* C37: when the previous join attempt failed because the channel did not
\* open (connect() rejected, no 'join' request was ever sent), the next
\* press of Join creates a transport and waits for it to open; it does not
\* end with the alert of a refused connect().
C37_JoinAfterFailedConnect ==
    [][(onJoin /\ joinPc = "failed" /\ joinRequests = 0) =>
          /\ transports' = transports + 1
          /\ joinPc' = "connect"
          /\ peer' = "connecting"]_vars


\* ---------------------------------------------------------------- C38
\* C38: once the status is 'joined', a step either leaves it 'joined' or is
\* the peer's 'close' event, which makes it 'disconnected'.
C38_JoinedUntilClose ==
    [][wsStatus = "joined" =>
          \/ wsStatus' = "joined"
          \/ PeerClose /\ wsStatus' = "disconnected"]_vars


\* ---------------------------------------------------------------- C39
\* C39: however the openDevices() calls overlap, every stream that was
\* captured is either the one the object retains or has been stopped, and
\* the calls that returned a stream since the last close() returned the
\* same one.
C39_OneCaptureStream ==
    /\ \A id \in 1..devices.acquired :
          id = devices.stream \/ id \in devices.stopped
    /\ \A a, b \in 1..Len(devices.returned) :
          (/\ devices.returned[a] # 0 /\ devices.returned[b] # 0
           /\ devices.returned[a] \notin devices.stopped
           /\ devices.returned[b] \notin devices.stopped) =>
              devices.returned[a] = devices.returned[b]


\* ---------------------------------------------------------------- C40
\* C40: addTransceivers on the receive-only session, also after close(),
\* leaves the session with a transceiver on its current connection for
\* every publication it was called with and for every publication its map
\* names.
C40_MapDescribesCurrentConnection ==
    [][\A specs \in SlotSpecs :
          SessionAddTransceivers(specs) =>
             /\ \A s \in 1..Len(specs) :
                   specs[s].pusher_id \in ReservedOn(recvSession'.w)
             /\ RecvMapKeys(recvSession'.w) \subseteq ReservedOn(recvSession'.w)]_vars

====
